---- MODULE Spec2Model ----
(***************************************************************************)
(* Model of the Ronginus debate plugin: the DebateEngine (runDebate, the   *)
(* three fan-outs runTurnWithParticipants, getConclusionsWithParticipants  *)
(* and runVotingWithVoters, the tally determineWinnersById) together with  *)
(* the part of DebateView that drives it (startDebate, the human input     *)
(* resolver, stopDebate, onClose).                                         *)
(*                                                                         *)
(* Text is a sequence of integer tokens: the k-th fragment an agent with   *)
(* participant id p streams is the token p, a human's submitted text is    *)
(* HumanText, an error conclusion is ErrorText.  In the voting fan-out an  *)
(* agent's fragment is either the display name of a candidate or JunkText. *)
(* In a run a display name is the one token that names its owner; the     *)
(* vote parser on its own gets names with role suffixes and whole texts.   *)
(***************************************************************************)
EXTENDS Integers, Sequences, FiniteSets, Bags, TLC

\* ---- bounds of the model -------------------------------------------------
MaxParticipants == 2
MaxVoters == 2
MaxTurns == 2
MaxChunks == 1
MaxSoloTurns == 3
MaxSoloChunks == 3
MaxTallyVotes == 3
MaxTallyCands == 3
MaxParseCands == 3
MaxResponseLen == 3
MaxReasonLen == 2
MaxNoteVotes == 2
MaxPanelParticipants == 2
MaxPanelVoters == 2
MaxClock == 3
MaxTurnsTextLen == 2

\* ---- tokens ----------------------------------------------------------------
HumanText == 0
JunkText == 0
ErrorText == -1
Divider == -2
UserIdBase == 5
EmptyId == 0           \* the id ""
VoterIdBase == 10
UnableToParse == -3

\* tokens of a vote response; the text a sequence of tokens stands for is the
\* concatenation of the strings of its tokens
TokVote == 20          \* "VOTE: "
TokNewline == 21       \* "\n"
TokDash == 22          \* " - "
TokBecause == 23       \* "because "
TokClaude == 30        \* "Claude"
TokClaudeLower == 31   \* "claude"
TokUserName == 32      \* the localized display name of the user, "ユーザー"
TokUserKeyword == 33   \* "user"
TokRoleLong == 40      \* "（Optimist）"
TokRoleShort == 41     \* "（Critic）"
\* the fixed pieces of generateMarkdownNote's text
TokVotingHeading == 50 \* "## Voting Results"
TokItem == 51          \* "- **"
TokVotedFor == 52      \* "** voted for **"
TokBoldEnd == 53       \* "**"
TokColon == 54         \* ": "
\* characters of the text of the turns input besides the digits 0..9
CharMinus == 10        \* "-"
CharDot == 11          \* "."
DefaultTurns == 2      \* settings.defaultTurns as shipped
FallbackTurns == 2     \* "|| 2"

VARIABLES
  pc,                \* where runDebate is: idle, round, concl, vote, done, aborted, failed, rejected
  participants,      \* runDebate: participants
  voters,            \* runDebate: voters
  turns,             \* runDebate: turns
  turn,              \* runDebate: loop variable
  aborted,           \* abortController.signal.aborted
  fanout,            \* which fan-out the tasks of "tasks" belong to
  tasks,             \* the per-participant promises of the current fan-out
  responseMap,       \* runTurnWithParticipants: responseMap (insertion order kept)
  conclusionMap,     \* getConclusionsWithParticipants: conclusionMap
  voteMap,           \* runVotingWithVoters: voteMap
  allTurns,          \* runDebate: allTurns
  conclusions,       \* runDebate: conclusions
  votes,             \* runDebate: votes
  result,            \* the DebateResult runDebate returned, or NoResult
  events,            \* the events runDebate itself has emitted through the callbacks
  baseContext,       \* runTurnWithParticipants: baseContext, [none |-> TRUE] outside a round
  onDebateCompleteThrows, \* callbacks.onDebateComplete is a function that throws
  announced,         \* the completion events the tasks have emitted (a bag), each with
                     \* the number of events of "events" emitted before it
  viewPhase,         \* DebateView.state.phase while the view is mounted, else "closed"
  userInputResolver, \* DebateView.userInputResolver: index of the task it resolves, 0 = null
  pendingUserInput,  \* DebateView.state.pendingUserInput.type, "none" = undefined
  viewConclusions,   \* DebateView.state.conclusions
  viewVotes,         \* DebateView.state.votes
  debateEngine,      \* DebateView.debateEngine: 0 = null, 1 = the engine of the run the
                     \* variables above describe, 2 = an engine created after it
  tVotes,            \* input of a stand-alone tally
  tConclusions,      \* input of a stand-alone tally
  tResult,           \* output of a stand-alone tally
  pVoter,            \* input of a stand-alone parseVoteWithParticipants: voter
  pResponse,         \* input of a stand-alone parseVoteWithParticipants: response
  pConclusions,      \* input of a stand-alone parseVoteWithParticipants: conclusions
  pVote,             \* output of a stand-alone parseVoteWithParticipants
  pUserResponse,     \* input of a stand-alone human vote: the UserInputResponse, or NoResult
  nVotes,            \* input of a stand-alone generateMarkdownNote: result.votes
  nSection,          \* output: the "Voting Results" section of the note
  debateParticipants, \* DebatePanel: state debateParticipants
  voteParticipants,  \* DebatePanel: state voteParticipants
  panelTurns,        \* DebatePanel: state turns
  now,               \* Date.now() at the latest add
  startedTurns       \* <<n>> once onStartDebate was called with turns = n, else <<>>

vars == <<pc, participants, voters, turns, turn, aborted, fanout, tasks,
          responseMap, conclusionMap, voteMap, allTurns, conclusions, votes,
          result, events, announced, baseContext, onDebateCompleteThrows, viewPhase,
          viewVotes, debateEngine,
          userInputResolver, pendingUserInput, viewConclusions,
          tVotes, tConclusions, tResult, pVoter, pResponse, pConclusions, pVote,
          pUserResponse,
          nVotes, nSection,
          debateParticipants, voteParticipants, panelTurns, now, startedTurns>>

engineVars == <<pc, participants, voters, turns, turn, aborted, fanout, tasks,
          responseMap, conclusionMap, voteMap, allTurns, conclusions, votes,
          result, events, announced, baseContext, onDebateCompleteThrows, viewPhase,
          viewVotes, debateEngine,
          userInputResolver, pendingUserInput, viewConclusions>>

tallyVars == <<tVotes, tConclusions, tResult>>

parseVars == <<pVoter, pResponse, pConclusions, pVote, pUserResponse>>

noteVars == <<nVotes, nSection>>

panelVars == <<debateParticipants, voteParticipants, panelTurns, now, startedTurns>>

\* ---- sequences and Map ------------------------------------------------------
Range(f) == {f[i] : i \in DOMAIN f}

RECURSIVE SeqsUpTo(_, _)
SeqsUpTo(S, n) ==
  IF n = 0 THEN {<<>>}
  ELSE LET shorter == SeqsUpTo(S, n - 1)
       IN shorter \cup {Append(q, x) : q \in {r \in shorter : Len(r) = n - 1}, x \in S}

IsPrefix(p, q) == Len(p) <= Len(q) /\ \A i \in 1..Len(p) : p[i] = q[i]

\* A JavaScript Map as the sequence of its [key, value] entries in insertion order.
MapHas(m, k) == \E i \in DOMAIN m : m[i].key = k

MapGet(m, k) == m[CHOOSE i \in DOMAIN m : m[i].key = k].value

\* mutant: the entry replaces the collection
MapSetAlone(m, k, v) == <<[key |-> k, value |-> v]>>

\* Map.prototype.set
MapSet(m, k, v) ==
  IF MapHas(m, k)
  THEN [i \in DOMAIN m |-> IF m[i].key = k THEN [key |-> k, value |-> v] ELSE m[i]]
  ELSE Append(m, [key |-> k, value |-> v])

\* mutant: the values of the map in insertion (completion) order
AssembleInCompletionOrder(roster, m) == [i \in DOMAIN m |-> m[i].value]

\* "for (const x of roster) { const v = map.get(x.id); if (v) out.push(v) }"
RECURSIVE AssembleInRosterOrder(_, _)
AssembleInRosterOrder(roster, m) ==
  IF roster = <<>> THEN <<>>
  ELSE LET rest == AssembleInRosterOrder(Tail(roster), m)
       IN IF MapHas(m, Head(roster).id)
          THEN <<MapGet(m, Head(roster).id)>> \o rest
          ELSE rest

\* ---- determineWinnersById --------------------------------------------------
RECURSIVE InitCounts(_)
InitCounts(concls) ==
  IF concls = <<>> THEN <<>>
  ELSE MapSet(InitCounts(SubSeq(concls, 1, Len(concls) - 1)),
              concls[Len(concls)].participantId, 0)

RECURSIVE CountVotes(_, _)
CountVotes(counts, vs) ==
  IF vs = <<>> THEN counts
  ELSE LET id == Head(vs).votedForId
           current == IF MapHas(counts, id) THEN MapGet(counts, id) ELSE 0
       IN CountVotes(MapSet(counts, id, current + 1), Tail(vs))

RECURSIVE MaxCount(_)
MaxCount(counts) ==
  IF counts = <<>> THEN 0
  ELSE LET rest == MaxCount(Tail(counts))
       IN IF Head(counts).value > rest THEN Head(counts).value ELSE rest

RECURSIVE KeysWithCount(_, _)
KeysWithCount(counts, n) ==
  IF counts = <<>> THEN <<>>
  ELSE IF Head(counts).value = n
       THEN <<Head(counts).key>> \o KeysWithCount(Tail(counts), n)
       ELSE KeysWithCount(Tail(counts), n)

\* mutant: a tie of two is not a draw
determineWinnersDrawOfThree(vs, concls) ==
  LET voteCounts == CountVotes(InitCounts(concls), vs)
      maxVotes == MaxCount(voteCounts)
      winnerIds == KeysWithCount(voteCounts, maxVotes)
  IN [winnerIds |-> winnerIds, isDraw |-> Len(winnerIds) > 2]

\* mutant: nobody wins when nobody got a vote
determineWinnersNoVacuousDraw(vs, concls) ==
  LET voteCounts == CountVotes(InitCounts(concls), vs)
      maxVotes == MaxCount(voteCounts)
      winnerIds == IF maxVotes = 0 THEN <<>> ELSE KeysWithCount(voteCounts, maxVotes)
  IN [winnerIds |-> winnerIds, isDraw |-> Len(winnerIds) > 1]

determineWinnersById(vs, concls) ==
  LET voteCounts == CountVotes(InitCounts(concls), vs)
      maxVotes == MaxCount(voteCounts)
      winnerIds == KeysWithCount(voteCounts, maxVotes)
  IN [winnerIds |-> winnerIds, isDraw |-> Len(winnerIds) > 1]

\* ---- rosters -----------------------------------------------------------------
ParticipantTypes == {"ai", "user"}

\* Participant rosters: unique ids ("<type>-<n>-<time>": the id of a user begins
\* with "user"), the display name is the one token that names the id.
Rosters(n) ==
  {[i \in 1..Len(ts) |->
      [id |-> IF ts[i] = "user" THEN UserIdBase + i ELSE i, type |-> ts[i],
       displayName |-> <<IF ts[i] = "user" THEN UserIdBase + i ELSE i>>]] :
     ts \in SeqsUpTo(ParticipantTypes, n)}

\* Voter rosters: the panel gives every voter an id "<type>-voter-...", which
\* is never the id of a participant.
VoterRosters(n) ==
  {[i \in 1..Len(ts) |->
      [id |-> VoterIdBase + i, type |-> ts[i], displayName |-> <<VoterIdBase + i>>]] :
     ts \in SeqsUpTo(ParticipantTypes, n)}

NoResult == [none |-> TRUE]

\* ---- the state as a record, so that a handler's code can be composed ---------
Cur ==
  [pc |-> pc, participants |-> participants, voters |-> voters, turns |-> turns,
   turn |-> turn, aborted |-> aborted, fanout |-> fanout, tasks |-> tasks,
   responseMap |-> responseMap, conclusionMap |-> conclusionMap,
   voteMap |-> voteMap, allTurns |-> allTurns, conclusions |-> conclusions,
   votes |-> votes, result |-> result, events |-> events, announced |-> announced,
   baseContext |-> baseContext, onDebateCompleteThrows |-> onDebateCompleteThrows,
   viewPhase |-> viewPhase,
   userInputResolver |-> userInputResolver,
   pendingUserInput |-> pendingUserInput, viewConclusions |-> viewConclusions,
   viewVotes |-> viewVotes, debateEngine |-> debateEngine]

Apply(s) ==
  /\ pc' = s.pc
  /\ participants' = s.participants
  /\ voters' = s.voters
  /\ turns' = s.turns
  /\ turn' = s.turn
  /\ aborted' = s.aborted
  /\ fanout' = s.fanout
  /\ tasks' = s.tasks
  /\ responseMap' = s.responseMap
  /\ conclusionMap' = s.conclusionMap
  /\ voteMap' = s.voteMap
  /\ allTurns' = s.allTurns
  /\ conclusions' = s.conclusions
  /\ votes' = s.votes
  /\ result' = s.result
  /\ events' = s.events
  /\ announced' = s.announced
  /\ baseContext' = s.baseContext
  /\ onDebateCompleteThrows' = s.onDebateCompleteThrows
  /\ viewPhase' = s.viewPhase
  /\ userInputResolver' = s.userInputResolver
  /\ pendingUserInput' = s.pendingUserInput
  /\ viewConclusions' = s.viewConclusions
  /\ viewVotes' = s.viewVotes
  /\ debateEngine' = s.debateEngine

\* DebateView.updateState: the state of an unmounted view is never shown or
\* read again (onOpen replaces it), so it is not tracked.
ViewOpen(s) == s.viewPhase # "closed"

\* callbacks.onPhaseChange(ph), received by DebateView as updateState({phase})
EmitPhase(s, ph) ==
  [s EXCEPT !.events = Append(@, [type |-> "phase", arg |-> ph]),
            !.viewPhase = IF ViewOpen(s) THEN ph ELSE @]

\* callbacks.onTurnStart(k), onTurnComplete(turn), onDebateComplete(result), onError(e)
Emit(s, type, arg) == [s EXCEPT !.events = Append(@, [type |-> type, arg |-> arg])]

\* callbacks.onResponseComplete, onConclusionComplete, onVoteComplete called with item
Announce(s, type, item) ==
  [s EXCEPT !.announced =
      @ (+) SetToBag({[type |-> type,
                       turn |-> IF type = "responseComplete" THEN s.turn ELSE 0,
                       item |-> item, after |-> Len(s.events)]})]

RECURSIVE AnnounceAll(_, _, _)
AnnounceAll(s, type, items) ==
  IF items = <<>> THEN s
  ELSE AnnounceAll(Announce(s, type, Head(items)), type, Tail(items))

\* callbacks.onConclusionComplete(c), received as updateState({conclusions})
EmitConclusions(s, cs) ==
  [AnnounceAll(s, "conclusionComplete", cs) EXCEPT
     !.viewConclusions = IF ViewOpen(s) THEN @ \o cs ELSE @]

\* callbacks.onVoteComplete(vote), received as updateState({votes})
EmitVote(s, vote) ==
  [Announce(s, "voteComplete", vote) EXCEPT
     !.viewVotes = IF ViewOpen(s) THEN Append(@, vote) ELSE @]

\* ---- parseVoteWithParticipants ---------------------------------------------
\* String.toLowerCase, token by token
Lower(t) == IF t = TokClaude THEN TokClaudeLower ELSE t

\* String.length
RECURSIVE TextLength(_)
TextLength(text) ==
  IF text = <<>> THEN 0
  ELSE (CASE Head(text) \in {TokClaude, TokClaudeLower} -> 6
          [] Head(text) = TokRoleLong -> 10
          [] Head(text) = TokRoleShort -> 8
          [] Head(text) \in {TokUserName, TokUserKeyword} -> 4
          [] OTHER -> 1)
       + TextLength(Tail(text))

IsSpace(t) == t = TokNewline

IsRoleSuffix(t) == t \in {TokRoleLong, TokRoleShort}

\* String.trim
RECURSIVE Trim(_)
Trim(text) ==
  IF text = <<>> THEN <<>>
  ELSE IF IsSpace(Head(text)) THEN Trim(Tail(text))
  ELSE IF IsSpace(text[Len(text)]) THEN Trim(SubSeq(text, 1, Len(text) - 1))
  ELSE text

\* displayName.replace(/[（(].+[）)]/, "").trim(): the greedy match runs from the
\* first opening parenthesis to the last closing one
BaseName(displayName) ==
  LET roles == {k \in DOMAIN displayName : IsRoleSuffix(displayName[k])}
  IN IF roles = {} THEN Trim(displayName)
     ELSE LET first == CHOOSE k \in roles : \A l \in roles : k <= l
              last == CHOOSE k \in roles : \A l \in roles : l <= k
          IN Trim(SubSeq(displayName, 1, first - 1)
                  \o SubSeq(displayName, last + 1, Len(displayName)))

\* name occurs in text at position p, letter case ignored
OccursAt(name, text, p) ==
  /\ p + Len(name) - 1 <= Len(text)
  /\ \A k \in DOMAIN name : Lower(text[p + k - 1]) = Lower(name[k])

\* responseLower.includes(nameLower)
Includes(text, name) == \E p \in 1..(Len(text) + 1) : OccursAt(name, text, p)

\* new RegExp(`(?:VOTE|投票)[：:]\\s*${escapeRegex(name)}`, "i").test(response)
MarkerMatch(name, text) ==
  \E p \in DOMAIN text : \E q \in (p + 1)..(Len(text) + 1) :
     /\ text[p] = TokVote
     /\ \A k \in (p + 1)..(q - 1) : IsSpace(text[k])
     /\ OccursAt(name, text, q)

\* new RegExp(`^\\s*${escapeRegex(name)}\\s*$`, "im").test(response)
LineMatch(name, text) ==
  \E a \in 1..(Len(text) + 1) :
     /\ OccursAt(name, text, a)
     /\ \E b \in 1..a :
          /\ \A k \in b..(a - 1) : IsSpace(text[k])
          /\ b = 1 \/ text[b - 1] = TokNewline
     /\ \E e \in (a + Len(name) - 1)..Len(text) :
          /\ \A k \in (a + Len(name))..e : IsSpace(text[k])
          /\ e = Len(text) \/ text[e + 1] = TokNewline

\* the four votePatterns of strategy 1 for one candidate
VotePatternsMatch(displayName, text) ==
  \/ MarkerMatch(displayName, text)
  \/ MarkerMatch(BaseName(displayName), text)
  \/ LineMatch(displayName, text)
  \/ LineMatch(BaseName(displayName), text)

\* the condition of strategy 2 for one candidate
NameOccurs(displayName, text) ==
  Includes(text, displayName) \/ Includes(text, BaseName(displayName))

\* response.split("\n").filter(l => l.trim()): the non-blank lines
RECURSIVE Lines(_, _)
Lines(text, cur) ==
  IF text = <<>> THEN (IF cur = <<>> THEN <<>> ELSE <<cur>>)
  ELSE IF Head(text) = TokNewline
  THEN (IF cur = <<>> THEN <<>> ELSE <<cur>>) \o Lines(Tail(text), <<>>)
  ELSE Lines(Tail(text), Append(cur, Head(text)))

RECURSIVE JoinLines(_)
JoinLines(ls) ==
  IF ls = <<>> THEN <<>>
  ELSE IF Len(ls) = 1 THEN ls[1]
  ELSE ls[1] \o <<TokNewline>> \o JoinLines(Tail(ls))

\* the text after the first occurrence of the token marker, trimmed
AfterFirst(marker, text) ==
  LET ps == {p \in DOMAIN text : text[p] = marker}
  IN IF ps = {} THEN <<>>
     ELSE Trim(SubSeq(text, (CHOOSE p \in ps : \A q \in ps : p <= q) + 1, Len(text)))

\* extractReason: the patterns in their order ("because" before the dash), then
\* the lines after the first one; <<>> stands for undefined.  The responses of
\* the model contain none of the markers "理由", "Reason:" and "なぜなら".
extractReason(response) ==
  IF AfterFirst(TokBecause, response) # <<>> THEN AfterFirst(TokBecause, response)
  ELSE IF AfterFirst(TokDash, response) # <<>> THEN AfterFirst(TokDash, response)
  ELSE LET lines == Lines(response, <<>>)
       IN IF Len(lines) > 1 THEN Trim(JoinLines(Tail(lines))) ELSE <<>>

\* strategy 3: the keyword patterns that test true, in the order of nameMapping,
\* as the types they stand for (the responses of the model name no Gemini or Codex)
KeywordTypes(response) ==
  (IF \E p \in DOMAIN response : Lower(response[p]) = TokClaudeLower
   THEN <<"claude-cli">> ELSE <<>>)
  \o (IF \E p \in DOMAIN response : response[p] \in {TokUserKeyword, TokUserName}
      THEN <<"user">> ELSE <<>>)

\* c.participantId.startsWith(type)
IdStartsWith(id, type) ==
  IF type = "user" THEN id > UserIdBase /\ id < VoterIdBase
  ELSE id >= 1 /\ id <= UserIdBase

\* c.displayName.toLowerCase().includes(type.replace("-cli", ""))
NameIncludesType(displayName, type) ==
  IF type = "user" THEN \E k \in DOMAIN displayName : displayName[k] = TokUserKeyword
  ELSE \E k \in DOMAIN displayName : Lower(displayName[k]) = TokClaudeLower

KeywordCandidates(type, concls) ==
  {j \in DOMAIN concls :
     \/ IdStartsWith(concls[j].participantId, type)
     \/ NameIncludesType(concls[j].displayName, type)}

\* mutant: the vote carries the candidate's name where its id belongs
VoteForName(voter, c, reason) ==
  [voterId |-> voter.id, voterDisplayName |-> voter.displayName,
   votedForId |-> c.displayName[1], votedForDisplayName |-> c.displayName,
   reason |-> reason]

\* the Vote returned by a strategy that found the candidate c
VoteFor(voter, c, reason) ==
  [voterId |-> voter.id, voterDisplayName |-> voter.displayName,
   votedForId |-> c.participantId, votedForDisplayName |-> c.displayName,
   reason |-> reason]

\* mutant: the default gives no reason
DefaultVoteWithoutReason(voter) ==
  [voterId |-> voter.id, voterDisplayName |-> voter.displayName,
   votedForId |-> voter.id, votedForDisplayName |-> voter.displayName,
   reason |-> <<>>]

\* the default: the voter votes for itself
DefaultVote(voter) ==
  [voterId |-> voter.id, voterDisplayName |-> voter.displayName,
   votedForId |-> voter.id, votedForDisplayName |-> voter.displayName,
   reason |-> <<UnableToParse>>]

\* mutant: a name anywhere in the response is looked for before the marker
parseVoteSubstringFirst(voter, response, concls) ==
  LET marked == {j \in DOMAIN concls : VotePatternsMatch(concls[j].displayName, response)}
      named == {j \in DOMAIN concls : NameOccurs(concls[j].displayName, response)}
      Before(j, k) ==
        \/ TextLength(concls[j].displayName) > TextLength(concls[k].displayName)
        \/ /\ TextLength(concls[j].displayName) = TextLength(concls[k].displayName)
           /\ j <= k
  IN IF named # {}
     THEN VoteFor(voter, concls[CHOOSE j \in named : \A k \in named : Before(j, k)],
                  extractReason(response))
     ELSE IF marked # {}
     THEN VoteFor(voter, concls[CHOOSE j \in marked : \A k \in marked : j <= k],
                  extractReason(response))
     ELSE DefaultVote(voter)

parseVoteWithParticipants(voter, response, concls) ==
  LET marked == {j \in DOMAIN concls : VotePatternsMatch(concls[j].displayName, response)}
      named == {j \in DOMAIN concls : NameOccurs(concls[j].displayName, response)}
      \* [...conclusions].sort((a, b) => b.displayName.length - a.displayName.length)
      Before(j, k) ==
        \/ TextLength(concls[j].displayName) > TextLength(concls[k].displayName)
        \/ /\ TextLength(concls[j].displayName) = TextLength(concls[k].displayName)
           /\ j <= k
      types == KeywordTypes(response)
      hits == {n \in DOMAIN types : KeywordCandidates(types[n], concls) # {}}
  IN IF marked # {}
     THEN VoteFor(voter, concls[CHOOSE j \in marked : \A k \in marked : j <= k],
                  extractReason(response))
     ELSE IF named # {}
     THEN VoteFor(voter, concls[CHOOSE j \in named : \A k \in named : Before(j, k)],
                  extractReason(response))
     ELSE IF hits # {}
     THEN LET n == CHOOSE m \in hits : \A l \in hits : m <= l
              cs == KeywordCandidates(types[n], concls)
          IN VoteFor(voter, concls[CHOOSE j \in cs : \A k \in cs : j <= k],
                     extractReason(response))
     ELSE DefaultVote(voter)

\* ---- the fan-out: one task per member of the roster -------------------------
FanoutRoster(s) == IF s.fanout = "vote" THEN s.voters ELSE s.participants

InFlight(t) == t.st \in {"stream", "input"}

\* mutant: the agents are started only after the human inputs have arrived
StartTasksAfterInput(s, roster) ==
  LET users == {i \in DOMAIN roster : roster[i].type = "user"}
      lastUser == CHOOSE i \in users : \A j \in users : j <= i
  IN IF s.aborted
     THEN [s EXCEPT !.tasks = [i \in DOMAIN roster |-> [st |-> "rejected", buf |-> <<>>, obs |-> <<>>]]]
     ELSE [s EXCEPT
             !.tasks = [i \in DOMAIN roster |->
                          [st |-> IF roster[i].type = "user" THEN "input"
                                  ELSE IF users # {} THEN "notstarted" ELSE "stream",
                           buf |-> <<>>, obs |-> <<>>]],
             !.userInputResolver = IF users # {} THEN lastUser ELSE @,
             !.pendingUserInput =
                IF users # {} THEN (IF s.fanout = "vote" THEN "vote" ELSE "debate") ELSE @]

\* The loops that create userPromise / aiPromise: each async body runs up to its
\* first await.  A task started after the signal was aborted throws AbortError.
StartTasks(s, roster) ==
  LET users == {i \in DOMAIN roster : roster[i].type = "user"}
      lastUser == CHOOSE i \in users : \A j \in users : j <= i
  IN IF s.aborted
     THEN [s EXCEPT !.tasks = [i \in DOMAIN roster |-> [st |-> "rejected", buf |-> <<>>, obs |-> <<>>]]]
     ELSE [s EXCEPT
             !.tasks = [i \in DOMAIN roster |->
                          [st |-> IF roster[i].type = "user" THEN "input" ELSE "stream",
                           buf |-> <<>>, obs |-> <<>>]],
             !.userInputResolver = IF users # {} THEN lastUser ELSE @,
             !.pendingUserInput =
                IF users # {} THEN (IF s.fanout = "vote" THEN "vote" ELSE "debate") ELSE @]

\* runDebate throws: its locals are gone, and the promises still in flight are
\* no longer awaited by anyone (what they emit afterwards is not part of the run).
Thrown(s, outcome) ==
  [s EXCEPT !.pc = outcome, !.tasks = <<>>, !.fanout = "none", !.responseMap = <<>>,
            !.baseContext = NoResult,
            !.conclusionMap = <<>>, !.voteMap = <<>>, !.allTurns = <<>>,
            !.conclusions = <<>>, !.votes = <<>>]

\* mutant: the catch block only rethrows
CatchWithoutEvents(s) ==
  IF s.aborted THEN Thrown(s, "aborted") ELSE Thrown(s, "failed")

\* the catch block of runDebate
Catch(s) ==
  IF s.aborted
  THEN Thrown(s, "aborted")
  ELSE Thrown(Emit(EmitPhase(s, "error"), "error", "TypeError"), "failed")

FinalConclusion(winnerIds, isDraw, concls) ==
  LET contentOf(id) ==
        IF \E j \in DOMAIN concls : concls[j].participantId = id
        THEN concls[CHOOSE j \in DOMAIN concls :
                      /\ concls[j].participantId = id
                      /\ \A k \in DOMAIN concls : concls[k].participantId = id => j <= k].content
        ELSE <<>>
      joined[n \in 0..Len(winnerIds)] ==
        IF n = 0 THEN <<>>
        ELSE IF n = 1 THEN contentOf(winnerIds[1])
        ELSE joined[n - 1] \o <<Divider>> \o contentOf(winnerIds[n])
  IN IF isDraw THEN joined[Len(winnerIds)]
     ELSE IF winnerIds # <<>> THEN contentOf(winnerIds[1])
     ELSE <<>>

\* runDebate after the voting fan-out has joined: tally, result, 'complete'
Finish(s) ==
  LET vs == AssembleInRosterOrder(s.voters, s.voteMap)
      w == determineWinnersById(vs, s.conclusions)
      winnerId == IF w.isDraw \/ w.winnerIds = <<>> THEN NoResult ELSE [id |-> w.winnerIds[1]]
      res == [turns |-> s.allTurns, conclusions |-> s.conclusions, votes |-> vs,
              winnerId |-> winnerId, winnerIds |-> w.winnerIds, isDraw |-> w.isDraw,
              finalConclusion |-> FinalConclusion(w.winnerIds, w.isDraw, s.conclusions),
              debateParticipants |-> s.participants, voteParticipants |-> s.voters]
      s1 == EmitPhase([s EXCEPT !.votes = vs, !.tasks = <<>>, !.fanout = "none"],
                      "complete")
      s2 == Emit(s1, "debateComplete", "result")
  IN IF s.onDebateCompleteThrows
     THEN Catch(s2)    \* the call is inside the try block
     ELSE [s2 EXCEPT !.result = res, !.pc = "done",
                     !.viewPhase = IF ViewOpen(s) THEN "complete" ELSE @]

RECURSIVE Advance(_)

\* runDebate: 'voting' and the call of runVotingWithVoters
Voting(s) ==
  Advance(StartTasks([EmitPhase(s, "voting") EXCEPT
                        !.pc = "vote", !.fanout = "vote", !.voteMap = <<>>],
                     s.voters))

ToConclusion(r) ==
  [participantId |-> r.participantId, displayName |-> r.displayName, content |-> r.content]

IsTagged(r) == r.isConclusion

\* mutant: the conclusions are always asked for again
ConcludingAlwaysAsks(s) ==
  LET s1 == EmitPhase(s, "concluding")
  IN IF s.allTurns = <<>>
     THEN Catch(s1)
     ELSE Advance(StartTasks([s1 EXCEPT !.pc = "concl", !.fanout = "concl",
                                        !.conclusionMap = <<>>],
                             s.participants))

\* runDebate: 'concluding', the conclusions tagged in the last turn, and the
\* call of getConclusionsWithParticipants when none is tagged
Concluding(s) ==
  LET s1 == EmitPhase(s, "concluding")
  IN IF s.allTurns = <<>>
     THEN Catch(s1)    \* lastTurn is undefined: lastTurn.responses throws TypeError
     ELSE LET tagged == SelectSeq(s.allTurns[Len(s.allTurns)].responses, IsTagged)
              cs == [j \in DOMAIN tagged |-> ToConclusion(tagged[j])]
              s2 == EmitConclusions([s1 EXCEPT !.conclusions = cs], cs)
          IN IF cs = <<>>
             THEN Advance(StartTasks([s2 EXCEPT !.pc = "concl", !.fanout = "concl",
                                                !.conclusionMap = <<>>],
                                     s.participants))
             ELSE Voting(s2)

\* "## turn N" with "### displayName\ncontent" for each response, in the order of
\* the two loops
SerialiseTurn(t) ==
  [turnNumber |-> t.turnNumber,
   responses |-> [j \in DOMAIN t.responses |->
                    [displayName |-> t.responses[j].displayName,
                     content |-> t.responses[j].content]]]

\* mutant: every round is asked for a conclusion
buildTurnContextAlwaysConcluding(previousTurns, isLastTurn) ==
  [previous |-> [k \in DOMAIN previousTurns |-> SerialiseTurn(previousTurns[k])],
   task |-> previousTurns # <<>>,
   conclusionPrompt |-> TRUE]

\* mutant: only the latest turn is serialised
buildTurnContextLatestOnly(previousTurns, isLastTurn) ==
  [previous |-> IF previousTurns = <<>> THEN <<>>
                ELSE <<SerialiseTurn(previousTurns[Len(previousTurns)])>>,
   task |-> previousTurns # <<>>,
   conclusionPrompt |-> isLastTurn]

\* buildTurnContextWithParticipants: the parts of the text after the theme, in
\* the order in which they are appended (the previous discussion, the task
\* instruction, the conclusion prompt)
buildTurnContextWithParticipants(previousTurns, isLastTurn) ==
  [previous |-> [k \in DOMAIN previousTurns |-> SerialiseTurn(previousTurns[k])],
   task |-> previousTurns # <<>>,
   conclusionPrompt |-> isLastTurn]

\* mutant: the round is announced before the phase
BeginTurnStartsFirst(s) ==
  Advance(StartTasks([EmitPhase(Emit(s, "turnStart", s.turn), "thinking") EXCEPT
                        !.pc = "round", !.fanout = "round", !.responseMap = <<>>,
                        !.baseContext =
                           buildTurnContextWithParticipants(s.allTurns, s.turn = s.turns)],
                     s.participants))

\* runDebate: the head of one loop iteration and the call of runTurnWithParticipants
BeginTurn(s) ==
  Advance(StartTasks([Emit(EmitPhase(s, "thinking"), "turnStart", s.turn) EXCEPT
                        !.pc = "round", !.fanout = "round", !.responseMap = <<>>,
                        !.baseContext =
                           buildTurnContextWithParticipants(s.allTurns, s.turn = s.turns)],
                     s.participants))

\* mutant: the loop forgets onPhaseChange("turn_complete")
AfterTurnWithoutPhase(s) ==
  LET turnResult == [turnNumber |-> s.turn,
                     responses |-> AssembleInRosterOrder(s.participants, s.responseMap)]
      s1 == Emit([s EXCEPT !.allTurns = Append(@, turnResult), !.tasks = <<>>, !.baseContext = NoResult,
                           !.responseMap = <<>>, !.fanout = "none"],
                 "turnComplete", s.turn)
  IN IF s.turn < s.turns
     THEN BeginTurn([s1 EXCEPT !.turn = @ + 1])
     ELSE Concluding(s1)

\* runTurnWithParticipants after Promise.all, and the tail of the loop iteration
AfterTurn(s) ==
  LET turnResult == [turnNumber |-> s.turn,
                     responses |-> AssembleInRosterOrder(s.participants, s.responseMap)]
      s1 == EmitPhase(Emit([s EXCEPT !.allTurns = Append(@, turnResult), !.tasks = <<>>, !.baseContext = NoResult,
                                     !.responseMap = <<>>, !.fanout = "none"],
                           "turnComplete", s.turn),
                      "turn_complete")
  IN IF s.turn < s.turns
     THEN BeginTurn([s1 EXCEPT !.turn = @ + 1])
     ELSE Concluding(s1)

AfterConclusions(s) ==
  Voting([s EXCEPT !.conclusions = AssembleInRosterOrder(s.participants, s.conclusionMap),
                   !.tasks = <<>>, !.conclusionMap = <<>>, !.fanout = "none"])

\* "await Promise.all(allPromises)": rejects with the first rejection, resolves
\* when every promise is fulfilled; runDebate then runs on to its next await.
Advance(s) ==
  IF s.pc \notin {"round", "concl", "vote"} THEN s
  ELSE IF \E i \in DOMAIN s.tasks : s.tasks[i].st = "rejected" THEN Catch(s)
  ELSE IF \E i \in DOMAIN s.tasks : InFlight(s.tasks[i]) THEN s
  ELSE IF s.pc = "round" THEN AfterTurn(s)
  ELSE IF s.pc = "concl" THEN AfterConclusions(s)
  ELSE Finish(s)

\* mutant: no check of the roster's length
runDebateWithoutRosterCheck(s, ps, vs, n) ==
  LET s0 == [s EXCEPT !.aborted = FALSE, !.participants = ps, !.voters = vs,
                      !.turns = n, !.turn = 1]
  IN IF 1 <= n THEN BeginTurn(s0) ELSE Concluding(s0)

\* runDebate from its first line to its first await
runDebate(s, ps, vs, n) ==
  LET s0 == [s EXCEPT !.aborted = FALSE, !.participants = ps, !.voters = vs,
                      !.turns = n, !.turn = 1]
  IN IF Len(ps) < 1
     THEN [s0 EXCEPT !.pc = "rejected"]
     ELSE IF 1 <= n THEN BeginTurn(s0) ELSE Concluding(s0)

\* ---- what one task does when its await returns --------------------------------
SetTask(s, i, st) == [s EXCEPT !.tasks[i].st = st]

\* mutant: a vote the parser cannot read is dropped instead of recorded
CompleteOkDropsUnparsed(s, i, content) ==
  LET m == FanoutRoster(s)[i]
  IN IF s.fanout = "round"
     THEN LET debateResponse ==
                [participantId |-> m.id, displayName |-> m.displayName,
                 content |-> content, isConclusion |-> (s.turn = s.turns), error |-> ""]
          IN SetTask(Announce([s EXCEPT !.responseMap = MapSet(@, m.id, debateResponse)],
                              "responseComplete", debateResponse),
                     i, "fulfilled")
     ELSE IF s.fanout = "concl"
     THEN LET conclusion ==
                [participantId |-> m.id, displayName |-> m.displayName, content |-> content]
          IN SetTask(EmitConclusions([s EXCEPT !.conclusionMap = MapSet(@, m.id, conclusion)],
                                     <<conclusion>>),
                     i, "fulfilled")
     ELSE LET vote == parseVoteWithParticipants(m, content, s.conclusions)
          IN IF vote.reason = <<UnableToParse>>
             THEN SetTask(s, i, "fulfilled")
             ELSE SetTask(EmitVote([s EXCEPT !.voteMap = MapSet(@, m.id, vote)], vote),
                          i, "fulfilled")

\* the normal completion of the task of roster member i with the text "content"
CompleteOk(s, i, content) ==
  LET m == FanoutRoster(s)[i]
  IN IF s.fanout = "round"
     THEN LET debateResponse ==
                [participantId |-> m.id, displayName |-> m.displayName,
                 content |-> content, isConclusion |-> (s.turn = s.turns), error |-> ""]
          IN SetTask(Announce([s EXCEPT !.responseMap = MapSet(@, m.id, debateResponse)],
                              "responseComplete", debateResponse),
                     i, "fulfilled")
     ELSE IF s.fanout = "concl"
     THEN LET conclusion ==
                [participantId |-> m.id, displayName |-> m.displayName, content |-> content]
          IN SetTask(EmitConclusions([s EXCEPT !.conclusionMap = MapSet(@, m.id, conclusion)],
                                     <<conclusion>>),
                     i, "fulfilled")
     ELSE LET vote == parseVoteWithParticipants(m, content, s.conclusions)
          IN SetTask(EmitVote([s EXCEPT !.voteMap = MapSet(@, m.id, vote)], vote),
                     i, "fulfilled")

\* mutant: the catch block records nothing for the failed participant
CompleteErrWithoutRecord(s, i) ==
  IF s.aborted THEN SetTask(s, i, "rejected") ELSE SetTask(s, i, "fulfilled")

\* mutant: the catch block rethrows whatever it caught
CompleteErrRethrows(s, i) == SetTask(s, i, "rejected")

\* the catch block of an agent task
CompleteErr(s, i) ==
  LET m == FanoutRoster(s)[i]
  IN IF s.aborted
     THEN SetTask(s, i, "rejected")
     ELSE IF s.fanout = "round"
     THEN LET errorResponse ==
                [participantId |-> m.id, displayName |-> m.displayName,
                 content |-> <<>>, isConclusion |-> FALSE, error |-> "message"]
          IN SetTask([s EXCEPT !.responseMap = MapSet(@, m.id, errorResponse)],
                     i, "fulfilled")
     ELSE IF s.fanout = "concl"
     THEN LET conclusion ==
                [participantId |-> m.id, displayName |-> m.displayName,
                 content |-> <<ErrorText>>]
          IN SetTask([s EXCEPT !.conclusionMap = MapSet(@, m.id, conclusion)],
                     i, "fulfilled")
     ELSE LET vote ==
                [voterId |-> m.id, voterDisplayName |-> m.displayName,
                 votedForId |-> m.id, votedForDisplayName |-> m.displayName,
                 reason |-> <<ErrorText>>]
          IN SetTask([s EXCEPT !.voteMap = MapSet(@, m.id, vote)], i, "fulfilled")

\* the VoteResult built from a UserInputResponse: votedForId is <<id>>, or <<>>
\* when the response has none
UserVote(voter, userResponse, concls) ==
  LET found == {j \in DOMAIN concls : userResponse.votedForId = <<concls[j].participantId>>}
  IN [voterId |-> voter.id, voterDisplayName |-> voter.displayName,
      votedForId |-> IF userResponse.votedForId # <<>> THEN userResponse.votedForId[1]
                     ELSE IF concls # <<>> THEN concls[1].participantId
                     ELSE EmptyId,
      votedForDisplayName |->
        IF found # {}
        THEN concls[CHOOSE j \in found : \A k \in found : j <= k].displayName
        ELSE <<>>,
      reason |-> userResponse.reason]

\* the human vote of runVotingWithVoters, resolved by DebateView.handleUserVoteInput
CompleteUserVote(s, i, votedForId) ==
  LET m == s.voters[i]
      vote == UserVote(m, [content |-> <<>>, votedForId |-> <<votedForId>>,
                           reason |-> <<HumanText>>],
                       s.conclusions)
  IN SetTask(EmitVote([s EXCEPT !.voteMap = MapSet(@, m.id, vote)], vote),
             i, "fulfilled")

\* A debate of one participant and no voters is followed for more rounds, and
\* one of a single round also for longer streams of more kinds of fragment.
IsSolo(ps, vs) == Len(ps) = 1 /\ vs = <<>>

TurnBound(ps, vs) == IF IsSolo(ps, vs) THEN MaxSoloTurns ELSE MaxTurns

ChunkBound(s) ==
  IF IsSolo(s.participants, s.voters) /\ s.turns = 1 THEN MaxSoloChunks ELSE MaxChunks

\* the fragments a stream can yield
Fragments(s, i) ==
  IF s.fanout = "vote"
  THEN UNION {Range(s.conclusions[j].displayName) : j \in DOMAIN s.conclusions}
       \cup {JunkText}
  ELSE IF IsSolo(s.participants, s.voters) /\ s.turns = 1
  THEN {s.participants[i].id, JunkText}
  ELSE {s.participants[i].id}

\* mutant: the observation carries the fragment, not the running buffer
OnTextItemEmitsFragment(s, i, f) ==
  [s EXCEPT !.tasks[i].buf = Append(@, f),
            !.tasks[i].obs = IF s.fanout = "vote" THEN @ ELSE Append(@, <<f>>)]

\* the body of the stream loop for a text item with content: "response +=
\* chunk.content", then onResponseStream / onConclusionStream with the buffer
\* (the loop of the voting has no callback)
OnTextItem(s, i, f) ==
  [s EXCEPT !.tasks[i].buf = Append(@, f),
            !.tasks[i].obs = IF s.fanout = "vote" THEN @
                             ELSE Append(@, Append(s.tasks[i].buf, f))]

\* ---- generateMarkdownNote: the "Voting Results" section ---------------------
\* the template literal of one vote; <<>> stands for a reason that is undefined
\* or empty
VoteLine(vote) ==
  <<TokItem>> \o vote.voterDisplayName \o <<TokVotedFor>> \o vote.votedForDisplayName
  \o <<TokBoldEnd>>
  \o (IF vote.reason # <<>> THEN <<TokColon>> \o vote.reason ELSE <<>>)

\* the lines pushed from the heading to the empty line after the votes, as
\* lines.join("\n") makes them part of the note
VotingResultsSection(vs) ==
  JoinLines(<<<<TokVotingHeading>>, <<>>>> \o [i \in DOMAIN vs |-> VoteLine(vs[i])]
            \o <<<<>>>>)

\* ---- Init ---------------------------------------------------------------------
EngineInit ==
  /\ pc = "idle"
  /\ participants = <<>>
  /\ voters = <<>>
  /\ turns = 0
  /\ turn = 0
  /\ aborted = FALSE
  /\ fanout = "none"
  /\ tasks = <<>>
  /\ responseMap = <<>>
  /\ conclusionMap = <<>>
  /\ voteMap = <<>>
  /\ allTurns = <<>>
  /\ conclusions = <<>>
  /\ votes = <<>>
  /\ result = NoResult
  /\ events = <<>>
  /\ announced = EmptyBag
  /\ baseContext = NoResult
  /\ onDebateCompleteThrows = FALSE
  /\ viewPhase = "idle"
  /\ userInputResolver = 0
  /\ pendingUserInput = "none"
  /\ viewConclusions = <<>>
  /\ viewVotes = <<>>
  /\ debateEngine = 0

TallyIdle ==
  /\ tVotes = <<>>
  /\ tConclusions = <<>>
  /\ tResult = NoResult

ParseIdle ==
  /\ pVoter = NoResult
  /\ pResponse = <<>>
  /\ pConclusions = <<>>
  /\ pVote = NoResult
  /\ pUserResponse = NoResult

NoteIdle ==
  /\ nVotes = <<>>
  /\ nSection = NoResult

PanelIdle ==
  /\ debateParticipants = <<>>
  /\ voteParticipants = <<>>
  /\ panelTurns = DefaultTurns
  /\ now = 0
  /\ startedTurns = <<>>

Init == EngineInit /\ TallyIdle /\ ParseIdle /\ NoteIdle /\ PanelIdle

\* ---- actions --------------------------------------------------------------------
\* DebateView.startDebate: the view is reset for the run, a new engine is
\* created and runDebate runs up to its first await.
StartDebate ==
  /\ viewPhase = "idle"
  /\ pc = "idle"
  /\ \E ps \in Rosters(MaxParticipants), vs \in VoterRosters(MaxVoters) :
     \E n \in 0..TurnBound(ps, vs) :
       /\ Len(ps) >= 1
       /\ Apply(runDebate([Cur EXCEPT !.viewPhase = "thinking", !.viewConclusions = <<>>,
                                      !.viewVotes = <<>>, !.debateEngine = 1],
                          ps, vs, n))
  /\ UNCHANGED <<tallyVars, parseVars, noteVars, panelVars>>

\* DebateEngine.runDebate called with an empty roster (the roster check of the
\* view is not in the way: runDebate is the engine's public entry point).
RunDebateEmptyRoster ==
  /\ pc = "idle"
  /\ \E vs \in VoterRosters(MaxVoters), n \in 0..MaxTurns :
       Apply(runDebate(Cur, <<>>, vs, n))
  /\ UNCHANGED <<tallyVars, parseVars, noteVars, panelVars>>

\* the stream of task i yields a text fragment
StreamText(i) ==
  /\ i \in DOMAIN tasks
  /\ tasks[i].st = "stream"
  /\ Len(tasks[i].buf) < ChunkBound(Cur)
  /\ \E f \in Fragments(Cur, i) : Apply(OnTextItem(Cur, i, f))
  /\ UNCHANGED <<tallyVars, parseVars, noteVars, panelVars>>

\* the stream of task i ends: the task builds its result and returns
StreamDone(i) ==
  /\ i \in DOMAIN tasks
  /\ tasks[i].st = "stream"
  /\ Apply(Advance(CompleteOk(Cur, i, tasks[i].buf)))
  /\ UNCHANGED <<tallyVars, parseVars, noteVars, panelVars>>

\* the stream of task i yields an error item and ends: a turn throws on it, the
\* conclusion and voting loops have no branch for it
StreamErrorItem(i) ==
  /\ i \in DOMAIN tasks
  /\ tasks[i].st = "stream"
  /\ IF fanout = "round"
     THEN Apply(Advance(CompleteErr(Cur, i)))
     ELSE Apply(Advance(CompleteOk(Cur, i, tasks[i].buf)))
  /\ UNCHANGED <<tallyVars, parseVars, noteVars, panelVars>>

\* the provider of task i throws
StreamThrow(i) ==
  /\ i \in DOMAIN tasks
  /\ tasks[i].st = "stream"
  /\ Apply(Advance(CompleteErr(Cur, i)))
  /\ UNCHANGED <<tallyVars, parseVars, noteVars, panelVars>>

\* DebateView.handleUserDebateInput, then the continuation of the resolved task
SubmitUserDebate ==
  /\ ViewOpen(Cur)
  /\ pendingUserInput = "debate"
  /\ userInputResolver # 0
  /\ Apply(Advance(CompleteOk([Cur EXCEPT !.userInputResolver = 0,
                                          !.pendingUserInput = "none"],
                              userInputResolver, <<HumanText>>)))
  /\ UNCHANGED <<tallyVars, parseVars, noteVars, panelVars>>

\* DebateView.handleUserVoteInput, then the continuation of the resolved task
SubmitUserVote ==
  /\ ViewOpen(Cur)
  /\ pendingUserInput = "vote"
  /\ userInputResolver # 0
  /\ \E j \in DOMAIN viewConclusions :
       Apply(Advance(CompleteUserVote([Cur EXCEPT !.userInputResolver = 0,
                                                  !.pendingUserInput = "none"],
                                      userInputResolver,
                                      viewConclusions[j].participantId)))
  /\ UNCHANGED <<tallyVars, parseVars, noteVars, panelVars>>

\* DebatePanel: isRunning; a closed view has no panel
IsRunning(ph) == ph \notin {"idle", "complete", "error", "closed"}

\* DebatePanel: the stop button is rendered
StopAvailable == IsRunning(viewPhase) /\ pendingUserInput = "none"

\* DebateView.stopDebate, behind the panel's stop button
StopDebate ==
  /\ StopAvailable
  /\ aborted' = TRUE
  /\ userInputResolver' = 0
  /\ viewPhase' = "idle"
  /\ pendingUserInput' = "none"
  /\ UNCHANGED <<pc, participants, voters, turns, turn, fanout, tasks, responseMap,
                 conclusionMap, voteMap, allTurns, conclusions, votes, result, events, announced,
                 baseContext, onDebateCompleteThrows, viewConclusions, viewVotes,
                 debateEngine>>
  /\ UNCHANGED <<tallyVars, parseVars, noteVars, panelVars>>

\* DebateView.onClose
OnClose ==
  /\ viewPhase # "closed"
  /\ viewPhase' = "closed"
  /\ viewConclusions' = <<>>
  /\ viewVotes' = <<>>
  /\ aborted' = (pc # "idle" \/ aborted)
  /\ UNCHANGED <<pc, participants, voters, turns, turn, fanout, tasks, responseMap,
                 conclusionMap, voteMap, allTurns, conclusions, votes, result, events, announced,
                 baseContext, onDebateCompleteThrows, userInputResolver,
                 pendingUserInput, debateEngine>>
  /\ UNCHANGED <<tallyVars, parseVars, noteVars, panelVars>>

TaskIds == 1..(IF MaxParticipants > MaxVoters THEN MaxParticipants ELSE MaxVoters)

Next ==
  \/ StartDebate
  \/ RunDebateEmptyRoster
  \/ \E i \in TaskIds : StreamText(i)
  \/ \E i \in TaskIds : StreamDone(i)
  \/ \E i \in TaskIds : StreamErrorItem(i)
  \/ \E i \in TaskIds : StreamThrow(i)
  \/ SubmitUserDebate
  \/ SubmitUserVote
  \/ StopDebate
  \/ OnClose

Spec == Init /\ [][Next]_vars

\* ---- a second debate started while the first run is still in flight -------------
\* DebateView.startDebate called again after stopDebate: the panel shows the
\* input section again (phase idle) while the stopped run has not terminated.
\* The view replaces its engine and resets its state; the new engine emits
\* onPhaseChange("thinking") and onTurnStart(1) and starts its agents, whose
\* streams yield nothing during the steps that follow.
RestartDebate ==
  /\ viewPhase = "idle"
  /\ debateEngine = 1
  /\ pc \in {"round", "concl", "vote"}
  /\ debateEngine' = 2
  /\ viewPhase' = "thinking"
  /\ viewConclusions' = <<>>
  /\ viewVotes' = <<>>
  /\ UNCHANGED <<pc, participants, voters, turns, turn, aborted, fanout, tasks, responseMap,
                 conclusionMap, voteMap, allTurns, conclusions, votes, result, events,
                 announced, baseContext, onDebateCompleteThrows, userInputResolver,
                 pendingUserInput>>
  /\ UNCHANGED <<tallyVars, parseVars, noteVars, panelVars>>

RestartNext ==
  \/ StartDebate
  \/ \E i \in TaskIds : StreamText(i)
  \/ \E i \in TaskIds : StreamDone(i)
  \/ \E i \in TaskIds : StreamErrorItem(i)
  \/ \E i \in TaskIds : StreamThrow(i)
  \/ SubmitUserDebate
  \/ SubmitUserVote
  \/ StopDebate
  \/ OnClose
  \/ RestartDebate

RestartSpec == Init /\ [][RestartNext]_vars

\* ---- the engine under a client other than the view ------------------------------
\* The client sets callbacks of its own, of which onDebateComplete may throw,
\* and none for user input; it calls runDebate with agents and may call stop.
AgentsOnly(roster) == \A i \in DOMAIN roster : roster[i].type = "ai"

RunDebateForClient ==
  /\ pc = "idle"
  /\ \E ps \in Rosters(MaxParticipants), vs \in VoterRosters(MaxVoters), b \in BOOLEAN :
     \E n \in 0..TurnBound(ps, vs) :
       /\ Len(ps) >= 1
       /\ AgentsOnly(ps)
       /\ AgentsOnly(vs)
       /\ Apply(runDebate([Cur EXCEPT !.viewPhase = "closed",
                                      !.onDebateCompleteThrows = b],
                          ps, vs, n))
  /\ UNCHANGED <<tallyVars, parseVars, noteVars, panelVars>>

\* DebateEngine.stop
EngineStop ==
  /\ pc \in {"round", "concl", "vote"}
  /\ ~aborted
  /\ Apply([Cur EXCEPT !.aborted = TRUE])
  /\ UNCHANGED <<tallyVars, parseVars, noteVars, panelVars>>

ClientNext ==
  \/ RunDebateForClient
  \/ \E i \in TaskIds : StreamText(i)
  \/ \E i \in TaskIds : StreamDone(i)
  \/ \E i \in TaskIds : StreamErrorItem(i)
  \/ \E i \in TaskIds : StreamThrow(i)
  \/ EngineStop

ClientSpec == Init /\ [][ClientNext]_vars

\* ---- the tally on its own ----------------------------------------------------------
\* Conclusion lists have pairwise distinct participant ids (ids are unique in a
\* roster); a vote is for one of the conclusions or, by the parser's and the
\* error path's fallback, for the voter itself.
TallyConclusionLists ==
  {[j \in DOMAIN ids |-> [participantId |-> ids[j], displayName |-> <<ids[j]>>,
                          content |-> <<ids[j]>>]] :
     ids \in {q \in SeqsUpTo(1..MaxTallyCands, MaxTallyCands) :
                \A a, b \in DOMAIN q : a # b => q[a] # q[b]}}

TallyVoteLists(concls) ==
  LET targets == {concls[j].participantId : j \in DOMAIN concls} \cup {0}
  IN {[i \in DOMAIN ts |->
         [voterId |-> VoterIdBase + i,
          votedForId |-> IF ts[i] = 0 THEN VoterIdBase + i ELSE ts[i]]] :
        ts \in SeqsUpTo(targets, MaxTallyVotes)}

TallyInit ==
  /\ EngineInit
  /\ ParseIdle
  /\ NoteIdle
  /\ PanelIdle
  /\ tConclusions \in TallyConclusionLists
  /\ tVotes \in TallyVoteLists(tConclusions)
  /\ tResult = NoResult

Tally ==
  /\ tResult = NoResult
  /\ tResult' = determineWinnersById(tVotes, tConclusions)
  /\ UNCHANGED <<tVotes, tConclusions>>
  /\ UNCHANGED <<engineVars, parseVars, noteVars, panelVars>>

TallyNext == Tally

TallySpec == TallyInit /\ [][TallyNext]_vars

\* ---- the vote parser on its own ------------------------------------------------------
\* The candidates: the same agent three times, with a long role, with a short
\* role and without a role, and a user under a localized display name.
ParsePool ==
  <<[participantId |-> 1, displayName |-> <<TokClaude, TokRoleLong>>, content |-> <<1>>],
    [participantId |-> 2, displayName |-> <<TokClaude, TokRoleShort>>, content |-> <<2>>],
    [participantId |-> 3, displayName |-> <<TokClaude>>, content |-> <<3>>],
    [participantId |-> UserIdBase + 1, displayName |-> <<TokUserName>>,
     content |-> <<UserIdBase + 1>>]>>

ParseConclusionLists ==
  {[j \in DOMAIN q |-> ParsePool[q[j]]] :
     q \in {r \in SeqsUpTo(DOMAIN ParsePool, MaxParseCands) :
              \A a, b \in DOMAIN r : a # b => r[a] # r[b]}}

ResponseTokens ==
  {TokVote, TokNewline, TokDash, TokBecause, JunkText, TokClaude, TokClaudeLower,
   TokRoleLong, TokRoleShort, TokUserName, TokUserKeyword}

\* the texts of a reason: words, also the word "because" and a name
ReasonTexts ==
  SeqsUpTo({JunkText, TokBecause, TokClaudeLower}, MaxReasonLen) \ {<<>>}

\* "VOTE: <name> - <text>" for the display name of a candidate of the pool
MarkerResponses ==
  {<<TokVote>> \o ParsePool[k].displayName \o <<TokDash>> \o text :
     k \in DOMAIN ParsePool, text \in ReasonTexts}

ParseResponses == SeqsUpTo(ResponseTokens, MaxResponseLen) \cup MarkerResponses

ParseInit ==
  /\ EngineInit
  /\ TallyIdle
  /\ NoteIdle
  /\ PanelIdle
  /\ pVoter \in {vs[1] : vs \in {r \in VoterRosters(1) : Len(r) = 1}}
  /\ pResponse \in ParseResponses
  /\ pConclusions \in ParseConclusionLists
  /\ pVote = NoResult
  /\ pUserResponse = NoResult

Parse ==
  /\ pVote = NoResult
  /\ pVote' = parseVoteWithParticipants(pVoter, pResponse, pConclusions)
  /\ UNCHANGED <<pVoter, pResponse, pConclusions, pUserResponse>>
  /\ UNCHANGED <<engineVars, tallyVars, noteVars, panelVars>>

ParseNext == Parse

ParseSpec == ParseInit /\ [][ParseNext]_vars

\* ---- the human vote on its own --------------------------------------------------------
\* The responses an onUserInputRequest callback may resolve with: votedForId is
\* optional, and may name any id.
UserResponses ==
  {[content |-> <<>>, votedForId |-> v, reason |-> r] :
     v \in {<<>>} \cup {<<ParsePool[k].participantId>> : k \in DOMAIN ParsePool},
     r \in {<<>>, <<HumanText>>}}

HumanVoteInit ==
  /\ EngineInit
  /\ TallyIdle
  /\ NoteIdle
  /\ PanelIdle
  /\ pVoter \in {vs[1] : vs \in {r \in VoterRosters(1) : Len(r) = 1 /\ r[1].type = "user"}}
  /\ pResponse = <<>>
  /\ pConclusions \in ParseConclusionLists
  /\ pUserResponse \in UserResponses
  /\ pVote = NoResult

RecordUserVote ==
  /\ pVote = NoResult
  /\ pVote' = UserVote(pVoter, pUserResponse, pConclusions)
  /\ UNCHANGED <<pVoter, pResponse, pConclusions, pUserResponse>>
  /\ UNCHANGED <<engineVars, tallyVars, noteVars, panelVars>>

HumanVoteNext == RecordUserVote

HumanVoteSpec == HumanVoteInit /\ [][HumanVoteNext]_vars

\* ---- the note's voting section on its own ------------------------------------------
\* The votes of a result: voter i of the roster votes for a participant, with
\* no reason, a reason of one line, or a reason of several lines, the second of
\* which may read like an item of a list.
NoteVote(i, target, reason) ==
  [voterId |-> VoterIdBase + i, voterDisplayName |-> <<VoterIdBase + i>>,
   votedForId |-> target, votedForDisplayName |-> <<target>>, reason |-> reason]

NoteReasons ==
  {<<>>, <<JunkText>>, <<JunkText, TokNewline, JunkText>>}
  \cup {<<JunkText, TokNewline>> \o VoteLine(NoteVote(MaxNoteVotes, target, <<>>)) :
          target \in 1..MaxParticipants}

NoteVoteLists ==
  UNION {[1..n -> (1..MaxParticipants) \X NoteReasons] : n \in 0..MaxNoteVotes}

NoteInit ==
  /\ EngineInit
  /\ TallyIdle
  /\ ParseIdle
  /\ PanelIdle
  /\ \E q \in NoteVoteLists : nVotes = [i \in DOMAIN q |-> NoteVote(i, q[i][1], q[i][2])]
  /\ nSection = NoResult

GenerateNote ==
  /\ nSection = NoResult
  /\ nSection' = VotingResultsSection(nVotes)
  /\ UNCHANGED nVotes
  /\ UNCHANGED <<engineVars, tallyVars, parseVars, panelVars>>

NoteNext == GenerateNote

NoteSpec == NoteInit /\ [][NoteNext]_vars

\* ---- the panel before a debate: rosters and the turns input ------------------------
PanelTypes == {"claude-cli", "user"}

\* the role typed into the dialog or the role field: none or one
PanelRoles == {<<>>, <<TokRoleLong>>}

getBaseDisplayName(type) == IF type = "user" THEN <<TokUserName>> ELSE <<TokClaude>>

\* `${baseDisplayName}（${role}）` or baseDisplayName
DisplayNameWithRole(type, role) == getBaseDisplayName(type) \o role

\* DebateView.getDefaultParticipants with the Claude CLI verified: "claude-cli-1"
getDefaultParticipants(claudeVerified) ==
  IF claudeVerified
  THEN <<[id |-> [type |-> "claude-cli", n |-> 1, time |-> 0], type |-> "claude-cli",
          role |-> <<>>, displayName |-> getBaseDisplayName("claude-cli")]>>
  ELSE <<>>

\* mutant: the voter's id is made of the type alone
DerivedVotersByType(newParticipants) ==
  [i \in DOMAIN newParticipants |->
     [id |-> [type |-> newParticipants[i].type, voterOf |-> <<>>],
      type |-> newParticipants[i].type,
      displayName |-> getBaseDisplayName(newParticipants[i].type)]]

\* newParticipants.map(p => ({id: `${p.type}-voter-${p.id}`, type, displayName}))
DerivedVoters(newParticipants) ==
  [i \in DOMAIN newParticipants |->
     [id |-> [type |-> newParticipants[i].type, voterOf |-> <<newParticipants[i].id>>],
      type |-> newParticipants[i].type,
      displayName |-> getBaseDisplayName(newParticipants[i].type)]]

\* DebatePanel.updateDebateParticipants
updateDebateParticipants(newParticipants) ==
  /\ debateParticipants' = newParticipants
  /\ voteParticipants' = DerivedVoters(newParticipants)

\* the view opens: the panel's state starts from the view's default rosters
PanelInit ==
  /\ EngineInit
  /\ TallyIdle
  /\ ParseIdle
  /\ NoteIdle
  /\ \E claudeVerified \in BOOLEAN :
       /\ debateParticipants = getDefaultParticipants(claudeVerified)
       /\ voteParticipants = DerivedVoters(getDefaultParticipants(claudeVerified))
  /\ panelTurns = DefaultTurns
  /\ now = 0
  /\ startedTurns = <<>>

\* the input section is rendered while state.phase is "idle"
PanelEditable == startedTurns = <<>>

\* ParticipantSection.addParticipant; some time has passed since the latest add
addParticipant(newType, newRole) ==
  /\ PanelEditable
  /\ Len(debateParticipants) < MaxPanelParticipants
  /\ now < MaxClock
  /\ now' = now + 1
  /\ LET existingCount ==
           Cardinality({i \in DOMAIN debateParticipants :
                          debateParticipants[i].type = newType})
         newParticipant ==
           [id |-> [type |-> newType, n |-> existingCount + 1, time |-> now + 1],
            type |-> newType, role |-> newRole,
            displayName |-> DisplayNameWithRole(newType, newRole)]
     IN updateDebateParticipants(Append(debateParticipants, newParticipant))
  /\ UNCHANGED <<panelTurns, startedTurns>>
  /\ UNCHANGED <<engineVars, tallyVars, parseVars, noteVars>>

\* ParticipantSection.removeParticipant
removeParticipant(i) ==
  /\ PanelEditable
  /\ i \in DOMAIN debateParticipants
  /\ updateDebateParticipants(
       SelectSeq(debateParticipants, LAMBDA p : p.id # debateParticipants[i].id))
  /\ UNCHANGED <<panelTurns, now, startedTurns>>
  /\ UNCHANGED <<engineVars, tallyVars, parseVars, noteVars>>

\* ParticipantSection.updateRole
updateRole(i, role) ==
  /\ PanelEditable
  /\ i \in DOMAIN debateParticipants
  /\ updateDebateParticipants(
       [j \in DOMAIN debateParticipants |->
          IF debateParticipants[j].id = debateParticipants[i].id
          THEN [debateParticipants[j] EXCEPT
                  !.role = role,
                  !.displayName = DisplayNameWithRole(debateParticipants[j].type, role)]
          ELSE debateParticipants[j]])
  /\ UNCHANGED <<panelTurns, now, startedTurns>>
  /\ UNCHANGED <<engineVars, tallyVars, parseVars, noteVars>>

\* VoterSection.addVoter
addVoter(newType) ==
  /\ PanelEditable
  /\ Len(voteParticipants) < MaxPanelVoters
  /\ now < MaxClock
  /\ now' = now + 1
  /\ LET existingCount ==
           Cardinality({i \in DOMAIN voteParticipants : voteParticipants[i].type = newType})
     IN voteParticipants' =
          Append(voteParticipants,
                 [id |-> [type |-> newType, n |-> existingCount + 1, time |-> now + 1],
                  type |-> newType, displayName |-> getBaseDisplayName(newType)])
  /\ UNCHANGED <<debateParticipants, panelTurns, startedTurns>>
  /\ UNCHANGED <<engineVars, tallyVars, parseVars, noteVars>>

\* VoterSection.removeVoter
removeVoter(i) ==
  /\ PanelEditable
  /\ i \in DOMAIN voteParticipants
  /\ voteParticipants' =
       SelectSeq(voteParticipants, LAMBDA v : v.id # voteParticipants[i].id)
  /\ UNCHANGED <<debateParticipants, panelTurns, now, startedTurns>>
  /\ UNCHANGED <<engineVars, tallyVars, parseVars, noteVars>>

\* The texts of the turns input: the value of an input of type "number" is ""
\* or a valid floating-point number, whatever its min and max.
TurnChars == {0, 1, 5, CharMinus, CharDot}

IsDigit(c) == c \in 0..9

IsNumberText(text) ==
  LET body == IF text # <<>> /\ Head(text) = CharMinus THEN Tail(text) ELSE text
  IN /\ body # <<>>
     /\ \A k \in DOMAIN body : IsDigit(body[k]) \/ body[k] = CharDot
     /\ Cardinality({k \in DOMAIN body : body[k] = CharDot}) <= 1
     /\ IsDigit(body[Len(body)])

TurnTexts == {text \in SeqsUpTo(TurnChars, MaxTurnsTextLen) : text = <<>> \/ IsNumberText(text)}

\* the value of a string of digits
RECURSIVE DigitsValue(_)
DigitsValue(ds) ==
  IF ds = <<>> THEN 0 ELSE 10 * DigitsValue(SubSeq(ds, 1, Len(ds) - 1)) + ds[Len(ds)]

\* parseInt: an optional sign, then the digits up to the first other character;
\* NaN when there is no digit
parseInt(text) ==
  LET negative == text # <<>> /\ Head(text) = CharMinus
      body == IF negative THEN Tail(text) ELSE text
      stops == {k \in DOMAIN body : ~IsDigit(body[k])}
      digits == IF stops = {} THEN body
                ELSE SubSeq(body, 1, (CHOOSE k \in stops : \A l \in stops : k <= l) - 1)
  IN IF digits = <<>> THEN [nan |-> TRUE, value |-> 0]
     ELSE [nan |-> FALSE,
           value |-> IF negative THEN 0 - DigitsValue(digits) ELSE DigitsValue(digits)]

\* "parseInt(e.target.value) || 2": NaN and 0 are falsy
TurnsOfInput(text) ==
  LET v == parseInt(text)
  IN IF v.nan \/ v.value = 0 THEN FallbackTurns ELSE v.value

\* onChange of the turns input
EditTurns ==
  /\ PanelEditable
  /\ \E text \in TurnTexts : panelTurns' = TurnsOfInput(text)
  /\ UNCHANGED <<debateParticipants, voteParticipants, now, startedTurns>>
  /\ UNCHANGED <<engineVars, tallyVars, parseVars, noteVars>>

\* DebatePanel.handleStartDebate: onStartDebate(theme, turns, ...), which is
\* DebateView.startDebate and passes turns on to runDebate unchanged
handleStartDebate ==
  /\ PanelEditable
  /\ Len(debateParticipants) >= 1
  /\ startedTurns' = <<panelTurns>>
  /\ UNCHANGED <<debateParticipants, voteParticipants, panelTurns, now>>
  /\ UNCHANGED <<engineVars, tallyVars, parseVars, noteVars>>

PanelNext ==
  \/ \E newType \in PanelTypes, newRole \in PanelRoles : addParticipant(newType, newRole)
  \/ \E i \in 1..MaxPanelParticipants : removeParticipant(i)
  \/ \E i \in 1..MaxPanelParticipants, role \in PanelRoles : updateRole(i, role)
  \/ \E newType \in PanelTypes : addVoter(newType)
  \/ \E i \in 1..MaxPanelVoters : removeVoter(i)
  \/ EditTurns
  \/ handleStartDebate

PanelSpec == PanelInit /\ [][PanelNext]_vars

\* ---- properties -----------------------------------------------------------------------
IsPhaseEvent(e) == e.type = "phase"

Phases(ev) == LET ph == SelectSeq(ev, IsPhaseEvent) IN [i \in DOMAIN ph |-> ph[i].arg]

NumEvents(ev, type) == Cardinality({i \in DOMAIN ev : ev[i].type = type})

NumPhase(ev, ph) == Cardinality({i \in DOMAIN ev : ev[i].type = "phase" /\ ev[i].arg = ph})

Running == {"round", "concl", "vote"}

RECURSIVE ExpectedPhases(_)
ExpectedPhases(n) ==
  IF n = 0 THEN <<"concluding", "voting", "complete">>
  ELSE <<"thinking", "turn_complete">> \o ExpectedPhases(n - 1)

\* C1: a run with a non-empty roster and turnCount >= 1 emits the phase changes
\* (thinking, turn_complete) x turnCount, concluding, voting, complete, in that
\* order and nothing else: while it runs it has emitted a prefix of that
\* sequence, and when it has returned it has emitted all of it.
C1_PhaseSequence ==
  (pc \notin {"idle", "rejected"} /\ Len(participants) >= 1 /\ turns >= 1) =>
     /\ IsPrefix(Phases(events), ExpectedPhases(turns))
     /\ pc = "done" => Phases(events) = ExpectedPhases(turns)

C1_Witness ==
  /\ pc = "done"
  /\ ~aborted
  /\ turns = MaxTurns
  /\ Len(Phases(events)) = 2 * MaxTurns + 3

TurnWellFormed(t) ==
  /\ Len(t.responses) = Len(participants)
  /\ \A i \in DOMAIN participants : t.responses[i].participantId = participants[i].id

\* C2: for a non-empty roster of agents and humans and turnCount >= 1, a run that
\* completes has produced exactly turnCount Turns, numbered 1..turnCount, and
\* every Turn has exactly one response per participant, in roster order.
C2_TurnsAndResponses ==
  (Len(participants) >= 1 /\ turns >= 1) =>
     /\ \A k \in DOMAIN allTurns : allTurns[k].turnNumber = k /\ TurnWellFormed(allTurns[k])
     /\ result # NoResult =>
          /\ Len(result.turns) = turns
          /\ \A k \in DOMAIN result.turns : TurnWellFormed(result.turns[k])

C2_Witness ==
  /\ result # NoResult
  /\ turns = MaxTurns
  /\ \E i, j \in DOMAIN participants :
       participants[i].type = "ai" /\ participants[j].type = "user"
  /\ \E k \in DOMAIN result.turns : \E i \in DOMAIN result.turns[k].responses :
       result.turns[k].responses[i].error # ""

Position(roster, id) == CHOOSE i \in DOMAIN roster : roster[i].id = id

InRosterOrder(ids, roster) ==
  /\ \A a \in DOMAIN ids : \E i \in DOMAIN roster : roster[i].id = ids[a]
  /\ \A a, b \in DOMAIN ids : a < b => Position(roster, ids[a]) < Position(roster, ids[b])

ResponseIds(t) == [i \in DOMAIN t.responses |-> t.responses[i].participantId]
ConclusionIds(cs) == [i \in DOMAIN cs |-> cs[i].participantId]
VoterIds(vs) == [i \in DOMAIN vs |-> vs[i].voterId]

\* C3: whatever the order in which the tasks complete, the responses of every
\* Turn and the conclusions are in participant-roster order and the votes are in
\* voter-roster order.
C3_RosterOrder ==
  /\ \A k \in DOMAIN allTurns : InRosterOrder(ResponseIds(allTurns[k]), participants)
  /\ InRosterOrder(ConclusionIds(conclusions), participants)
  /\ InRosterOrder(VoterIds(votes), voters)
  /\ result # NoResult =>
       /\ \A k \in DOMAIN result.turns : InRosterOrder(ResponseIds(result.turns[k]), participants)
       /\ InRosterOrder(ConclusionIds(result.conclusions), participants)
       /\ InRosterOrder(VoterIds(result.votes), voters)

\* the second voter's vote was recorded first, the result lists the first voter first
C3_Witness ==
  /\ result # NoResult
  /\ Len(voteMap) = 2
  /\ voteMap[1].key = voters[2].id
  /\ result.votes[1].voterId = voters[1].id
  /\ Len(result.conclusions) = 2

\* C4 (as claimed): once cancellation has been signaled, the run emits neither
\* the phase 'error' nor an error event, returns no DebateResult and emits no
\* debate-complete event.
C4_CancelledRunNeverCompletes ==
  [][aborted =>
       /\ NumPhase(events', "error") = NumPhase(events, "error")
       /\ NumEvents(events', "error") = NumEvents(events, "error")
       /\ NumEvents(events', "debateComplete") = NumEvents(events, "debateComplete")
       /\ result' = result]_vars

\* C5 (as claimed): once cancellation has been signaled, a run that has not
\* terminated is never left with only human input requests that nothing can
\* answer: an agent stream is still in flight (and ends, the signal having
\* reached its provider), or the view still holds the resolver of the pending
\* request; so the run can always go on to its termination.
C5_CancelledRunCanTerminate ==
  (aborted /\ pc \in Running) =>
     \/ \E i \in DOMAIN tasks : tasks[i].st = "stream"
     \/ ViewOpen(Cur) /\ userInputResolver # 0

ErrorResponseOf(p) ==
  [participantId |-> p.id, displayName |-> p.displayName, content |-> <<>>,
   isConclusion |-> FALSE, error |-> "message"]

\* the slot of participant id in the round's result collection, before and after a step
SlotNow(id) == IF MapHas(responseMap, id) THEN <<MapGet(responseMap, id)>> ELSE <<>>

SlotNext(id) ==
  IF Len(allTurns') > Len(allTurns)
  THEN SelectSeq(allTurns'[Len(allTurns) + 1].responses, LAMBDA r : r.participantId = id)
  ELSE IF pc' = "round" /\ MapHas(responseMap', id) THEN <<MapGet(responseMap', id)>>
  ELSE <<>>

\* C6: when in a round of a run that is not cancelled an agent's stream yields an
\* error item or its provider throws, that participant's response is the error
\* response (content "", an error message), the response of every other
\* participant is what it was, the round goes on (runDebate does not throw) and
\* no 'error' phase is emitted.
C6_FailureStaysLocal ==
  [][\A i \in DOMAIN participants :
       (fanout = "round" /\ ~aborted /\ (StreamErrorItem(i) \/ StreamThrow(i))) =>
          /\ SlotNext(participants[i].id) = <<ErrorResponseOf(participants[i])>>
          /\ \A j \in DOMAIN participants :
               j # i => SlotNext(participants[j].id) = SlotNow(participants[j].id)
          /\ pc' \notin {"failed", "aborted"}
          /\ NumPhase(events', "error") = 0]_vars

\* a completed run in which one participant failed in a turn and another answered
C6_Witness ==
  /\ result # NoResult
  /\ \E k \in DOMAIN result.turns : \E i, j \in DOMAIN result.turns[k].responses :
       /\ result.turns[k].responses[i].error # ""
       /\ result.turns[k].responses[i].content = <<>>
       /\ result.turns[k].responses[j].error = ""
       /\ result.turns[k].responses[j].content # <<>>
  /\ NumPhase(events, "error") = 0

\* C7: runDebate with an empty roster fails before anything happens: no event
\* (phase change, round start, error) is emitted and no task is started.
C7_EmptyRosterRejected ==
  (pc # "idle" /\ participants = <<>>) =>
     /\ pc = "rejected"
     /\ events = <<>>
     /\ tasks = <<>>
     /\ result = NoResult

C7_Witness == pc = "rejected" /\ participants = <<>> /\ events = <<>>

\* C8: every DebateResult has exactly one vote per voter of the voter roster, in
\* roster order, for agent and human voters, also when a vote cannot be parsed or
\* the voter's stream fails.
C8_OneVotePerVoter ==
  result # NoResult =>
     /\ Len(result.votes) = Len(result.voteParticipants)
     /\ \A i \in DOMAIN result.votes :
          result.votes[i].voterId = result.voteParticipants[i].id

C8_Witness ==
  /\ result # NoResult
  /\ Len(result.votes) = 2
  /\ \E i, j \in DOMAIN result.votes :
       /\ result.voteParticipants[i].type = "user"
       /\ result.voteParticipants[j].type = "ai"
       /\ result.votes[j].reason = <<UnableToParse>>

TallyCount(id) == Cardinality({i \in DOMAIN tVotes : tVotes[i].votedForId = id})

CandidateIds == ConclusionIds(tConclusions)

MaxOfCandidates ==
  IF tConclusions = <<>> THEN 0
  ELSE CHOOSE n \in {TallyCount(CandidateIds[j]) : j \in DOMAIN CandidateIds} :
         \A j \in DOMAIN CandidateIds : TallyCount(CandidateIds[j]) <= n

\* C9 (as claimed): the winners are exactly the candidates whose number of votes
\* is the maximum, in conclusion-list order; isDraw iff there is more than one;
\* a candidate with strictly more votes than every other candidate is the only winner.
C9_WinnersAreTopCandidates ==
  (tResult # NoResult /\ tConclusions # <<>>) =>
     /\ tResult.winnerIds =
          SelectSeq(CandidateIds, LAMBDA id : TallyCount(id) = MaxOfCandidates)
     /\ tResult.isDraw = (Len(tResult.winnerIds) > 1)
     /\ \A j \in DOMAIN CandidateIds :
          (\A k \in DOMAIN CandidateIds :
             k # j => TallyCount(CandidateIds[k]) < TallyCount(CandidateIds[j]))
          => (~tResult.isDraw /\ tResult.winnerIds = <<CandidateIds[j]>>)

\* C10: the tally of an empty vote list returns every candidate as a winner, in
\* conclusion-list order; isDraw is true with more than one conclusion and false,
\* with that single winner, with exactly one.
C10_EmptyVotesAllWin ==
  (tResult # NoResult /\ tVotes = <<>>) =>
     /\ tResult.winnerIds = CandidateIds
     /\ Len(tConclusions) > 1 => tResult.isDraw
     /\ Len(tConclusions) = 1 =>
          (~tResult.isDraw /\ tResult.winnerIds = <<tConclusions[1].participantId>>)

C10_Witness ==
  /\ tResult # NoResult
  /\ tVotes = <<>>
  /\ Len(tConclusions) = MaxTallyCands
  /\ tResult.isDraw
  /\ Len(tResult.winnerIds) = MaxTallyCands

\* C11: in every DebateResult winnerIds has at least one entry, isDraw holds iff
\* it has more than one, and winnerId is null iff isDraw, otherwise the single
\* entry of winnerIds.
C11_WinnerFields ==
  result # NoResult =>
     /\ Len(result.winnerIds) >= 1
     /\ result.isDraw = (Len(result.winnerIds) > 1)
     /\ (result.winnerId = NoResult) = result.isDraw
     /\ ~result.isDraw => result.winnerId = [id |-> result.winnerIds[1]]

\* a draw of two after a vote each
C11_Witness ==
  /\ result # NoResult
  /\ result.isDraw
  /\ Len(result.winnerIds) = 2
  /\ Len(result.votes) = 2
  /\ result.winnerId = NoResult

HasConclusion(id, concls) == \E j \in DOMAIN concls : concls[j].participantId = id

ConclusionContent(id, concls) ==
  concls[CHOOSE j \in DOMAIN concls : concls[j].participantId = id].content

RECURSIVE JoinByDivider(_)
JoinByDivider(texts) ==
  IF texts = <<>> THEN <<>>
  ELSE IF Len(texts) = 1 THEN texts[1]
  ELSE texts[1] \o <<Divider>> \o JoinByDivider(Tail(texts))

\* C12 (as claimed): in every DebateResult, finalConclusion is the content of the
\* winner's conclusion when there is a clear winner, and when isDraw it is the
\* contents of the conclusions of all tied winners, in winner order, joined by
\* the divider.
C12_FinalConclusion ==
  result # NoResult =>
     IF result.isDraw
     THEN /\ \A k \in DOMAIN result.winnerIds :
               HasConclusion(result.winnerIds[k], result.conclusions)
          /\ result.finalConclusion =
               JoinByDivider([k \in DOMAIN result.winnerIds |->
                                ConclusionContent(result.winnerIds[k], result.conclusions)])
     ELSE /\ result.winnerId # NoResult
          /\ HasConclusion(result.winnerId.id, result.conclusions)
          /\ result.finalConclusion =
               ConclusionContent(result.winnerId.id, result.conclusions)

ConclusionIdSet(concls) == {concls[j].participantId : j \in DOMAIN concls}

\* C13: for every voter, response and candidate list, parseVoteWithParticipants
\* returns a Vote of that voter whose votedForId is the participantId of one of
\* the supplied conclusions or the voter's own id.
C13_VoteTargetIsCandidateOrSelf ==
  pVoter # NoResult =>
     LET vote == parseVoteWithParticipants(pVoter, pResponse, pConclusions)
     IN /\ vote.voterId = pVoter.id
        /\ vote.votedForId \in ConclusionIdSet(pConclusions) \cup {pVoter.id}
        /\ pVote # NoResult => pVote = vote

\* a vote found by the keyword strategy among three candidates
C13_Witness ==
  /\ pVote # NoResult
  /\ Len(pConclusions) = MaxParseCands
  /\ pVote.votedForId \in ConclusionIdSet(pConclusions)
  /\ \A j \in DOMAIN pConclusions : ~NameOccurs(pConclusions[j].displayName, pResponse)

MarkerResponse(displayName, text) == <<TokVote>> \o displayName \o <<TokDash>> \o text

\* C14 (as claimed): for every candidate X of the list, the response
\* "VOTE: <X's full display name> - <text>" is parsed as a vote for X's
\* participantId with the reason <text>, also when the same agent takes part
\* several times under different role suffixes.
C14_MarkerVoteGoesToNamedCandidate ==
  pVote # NoResult =>
     \A j \in DOMAIN pConclusions : \A text \in ReasonTexts :
        pResponse = MarkerResponse(pConclusions[j].displayName, text) =>
           /\ pVote.votedForId = pConclusions[j].participantId
           /\ pVote.reason = text

LongestNamed(concls, response) ==
  LET named == {j \in DOMAIN concls : Includes(response, concls[j].displayName)}
  IN {j \in named :
        \A k \in named :
           TextLength(concls[k].displayName) <= TextLength(concls[j].displayName)}

\* C15 (as claimed): when no explicit marker matches and the display name of
\* some candidate occurs in the response, the vote goes to a candidate whose
\* display name occurs in the response and is the longest of those.
C15_SubstringPrefersLongestName ==
  (/\ pVote # NoResult
   /\ \A j \in DOMAIN pConclusions : ~VotePatternsMatch(pConclusions[j].displayName, pResponse)
   /\ LongestNamed(pConclusions, pResponse) # {})
  => \E j \in LongestNamed(pConclusions, pResponse) :
        pVote.votedForId = pConclusions[j].participantId

NoStrategyMatches(response, concls) ==
  /\ \A j \in DOMAIN concls : ~VotePatternsMatch(concls[j].displayName, response)
  /\ \A j \in DOMAIN concls : ~NameOccurs(concls[j].displayName, response)
  /\ \A n \in DOMAIN KeywordTypes(response) :
        KeywordCandidates(KeywordTypes(response)[n], concls) = {}

\* C16: when no strategy matches a candidate (no marker or solitary line, no
\* name in the response, no keyword that maps to a candidate) the parser returns
\* the voter's vote for itself with the reason "Unable to parse vote".
C16_DefaultIsSelfVote ==
  (pVote # NoResult /\ NoStrategyMatches(pResponse, pConclusions)) =>
     /\ pVote.voterId = pVoter.id
     /\ pVote.votedForId = pVoter.id
     /\ pVote.votedForDisplayName = pVoter.displayName
     /\ pVote.reason = <<UnableToParse>>

\* the response names the user by keyword, and no candidate is a user
C16_Witness ==
  /\ pVote # NoResult
  /\ pVote.reason = <<UnableToParse>>
  /\ pVote.votedForId = pVoter.id
  /\ Len(pConclusions) >= 2
  /\ KeywordTypes(pResponse) = <<"user">>
  /\ \E p \in DOMAIN pResponse : pResponse[p] = TokVote

RosterIds(roster) == [i \in DOMAIN roster |-> roster[i].id]

\* C17 (as claimed): every DebateResult has exactly one conclusion per
\* participant, none missing and none twice.
C17_OneConclusionPerParticipant ==
  result # NoResult =>
     ConclusionIds(result.conclusions) = RosterIds(result.debateParticipants)

LastTurnTagged(ts) ==
  \E i \in DOMAIN ts[Len(ts)].responses : ts[Len(ts)].responses[i].isConclusion

\* C18: the conclusion fan-out starts only in the step that ends the final
\* round (so at most once in a run) and only if no response of the last Turn is
\* tagged, and then it does start unless the run was cancelled; what it returns
\* becomes the conclusions, one per participant, and the Turn log is left as it
\* is: a DebateResult has exactly turnCount Turns.
C18_ConclusionFanout ==
  /\ [](result # NoResult => Len(result.turns) = turns)
  /\ [][/\ (pc # "concl" /\ pc' = "concl") =>
             /\ pc = "round"
             /\ Len(allTurns) = turns - 1
             /\ Len(allTurns') = turns
             /\ ~LastTurnTagged(allTurns')
        /\ (pc = "round" /\ Len(allTurns) = turns - 1 /\ Len(allTurns') = turns
              /\ ~LastTurnTagged(allTurns') /\ ~aborted) => pc' = "concl"
        /\ (pc = "concl" /\ pc' \in {"vote", "done"}) =>
             /\ allTurns' = allTurns
             /\ ConclusionIds(conclusions') = RosterIds(participants)
             /\ \A j \in DOMAIN conclusions' :
                  MapHas(conclusionMap, conclusions'[j].participantId) =>
                     conclusions'[j] = MapGet(conclusionMap, conclusions'[j].participantId)
       ]_vars

\* a completed run whose last Turn has no tagged response
C18_Witness ==
  /\ result # NoResult
  /\ turns = MaxTurns
  /\ Len(result.turns) = MaxTurns
  /\ ~LastTurnTagged(result.turns)
  /\ Len(result.conclusions) = 2

\* C19: an exception other than the cancellation that is raised in a phase of
\* runDebate makes it emit the phase 'error' and then the error event, once
\* each, as its last events, and fail: there is no result and no task of a new
\* attempt; a run that has not failed has emitted neither.
C19_FailureReportedOnce ==
  /\ pc = "failed" =>
       /\ NumPhase(events, "error") = 1
       /\ NumEvents(events, "error") = 1
       /\ Len(events) >= 2
       /\ events[Len(events) - 1] = [type |-> "phase", arg |-> "error"]
       /\ events[Len(events)].type = "error"
       /\ result = NoResult
       /\ tasks = <<>>
  /\ pc # "failed" => NumPhase(events, "error") = 0 /\ NumEvents(events, "error") = 0

C19_Witness ==
  /\ pc = "failed"
  /\ ~aborted
  /\ Len(participants) = MaxParticipants
  /\ NumPhase(events, "concluding") = 1

\* C20 (as claimed): in every view state whose phase is thinking, turn_complete,
\* concluding or voting, also while a human input is pending, the stop action
\* is available.
C20_StopAlwaysAvailable ==
  viewPhase \in {"thinking", "turn_complete", "concluding", "voting"} => StopAvailable

\* the completion events of one type that announced the item (of the turn)
Announcements(type, k, item) ==
  {e \in BagToSet(announced) : e.type = type /\ e.turn = k /\ e.item = item}

AnnouncedOnce(type, k, item) ==
  /\ Cardinality(Announcements(type, k, item)) = 1
  /\ \A e \in Announcements(type, k, item) :
       /\ CopiesIn(e, announced) = 1
       /\ e.after < Len(events)

\* C21 (as claimed): every response of every Turn, every conclusion and every
\* vote of the DebateResult was announced by exactly one completion event of its
\* kind, emitted before the debate-complete event; also the entries of the
\* error-recovery paths.
C21_EveryEntryAnnounced ==
  result # NoResult =>
     /\ \A k \in DOMAIN result.turns : \A i \in DOMAIN result.turns[k].responses :
          AnnouncedOnce("responseComplete", k, result.turns[k].responses[i])
     /\ \A j \in DOMAIN result.conclusions :
          AnnouncedOnce("conclusionComplete", 0, result.conclusions[j])
     /\ \A j \in DOMAIN result.votes : AnnouncedOnce("voteComplete", 0, result.votes[j])

NumPhaseBefore(ph, n) == NumPhase(SubSeq(events, 1, n), ph)

\* C22: every phase-change event comes before the events of the phase's work:
\* 'thinking' of round k before round-start k and before every streaming and
\* response-complete event of round k, 'concluding' before every
\* conclusion-complete event, 'voting' before every vote-complete event and
\* 'complete' before debate-complete.
C22_PhaseBeforeWork ==
  /\ [](/\ \A p \in DOMAIN events :
             /\ events[p].type = "turnStart" => NumPhaseBefore("thinking", p) = events[p].arg
             /\ events[p].type = "debateComplete" => NumPhaseBefore("complete", p) = 1
        /\ \A e \in BagToSet(announced) :
             /\ e.type = "responseComplete" => NumPhaseBefore("thinking", e.after) = e.turn
             /\ e.type = "conclusionComplete" => NumPhaseBefore("concluding", e.after) = 1
             /\ e.type = "voteComplete" => NumPhaseBefore("voting", e.after) = 1)
  /\ [][\A i \in TaskIds :
          StreamText(i) =>
             /\ fanout = "round" => NumPhase(events, "thinking") = turn
             /\ fanout = "concl" => NumPhase(events, "concluding") = 1
             /\ fanout = "vote" => NumPhase(events, "voting") = 1]_vars

\* a completed run with completion events of the three kinds in two rounds
C22_Witness ==
  /\ result # NoResult
  /\ turns = MaxTurns
  /\ \E e \in BagToSet(announced) : e.type = "responseComplete" /\ e.turn = MaxTurns
  /\ \E e \in BagToSet(announced) : e.type = "conclusionComplete"
  /\ \E e \in BagToSet(announced) : e.type = "voteComplete"
  /\ \E i \in DOMAIN result.votes : result.votes[i].reason # <<ErrorText>>

\* C23: while a round waits, every participant's task has been started (an agent
\* streams or has settled even while a human input is pending), and the Turn
\* of a round is produced, and turn-complete emitted, by the step in which the
\* last task of the round settles, with one response per participant.
TasksInFlight == {i \in DOMAIN tasks : InFlight(tasks[i])}

C23_AllStartedThenJoined ==
  /\ [](pc = "round" =>
          /\ DOMAIN tasks = DOMAIN participants
          /\ \A i \in DOMAIN tasks :
                /\ tasks[i].st \in {"stream", "input", "fulfilled", "rejected"}
                /\ participants[i].type = "ai" => tasks[i].st # "input")
  /\ [][/\ Len(allTurns') > Len(allTurns)
          => /\ Len(allTurns') = Len(allTurns) + 1
             /\ Len(allTurns'[Len(allTurns')].responses) = Len(participants)
             /\ NumEvents(events', "turnComplete") > NumEvents(events, "turnComplete")
       /\ NumEvents(events', "turnComplete") > NumEvents(events, "turnComplete")
          => /\ pc = "round"
             /\ Cardinality(TasksInFlight) = 1
             /\ NumEvents(events', "turnComplete") =
                  NumEvents(events, "turnComplete") + 1]_vars

C23_Witness ==
  /\ pc = "round"
  /\ turn = 2
  /\ \E i \in DOMAIN tasks : tasks[i].st = "input"
  /\ \E j \in DOMAIN tasks : tasks[j].st = "fulfilled" /\ participants[j].type = "ai"

\* C24: the "Voting Results" section of the note determines the (voter display
\* name, voted-for display name) pairs of result.votes, in order and number:
\* whatever reads the lines of the section back recovers the pairs only if no
\* list of votes with other pairs is formatted to the same text - for every
\* reason, also one of several lines.
VotePairs(vs) ==
  [i \in DOMAIN vs |-> <<vs[i].voterDisplayName, vs[i].votedForDisplayName>>]

NoteVotes == {[i \in DOMAIN q |-> NoteVote(i, q[i][1], q[i][2])] : q \in NoteVoteLists}

C24_VotingSectionRecoversPairs ==
  nSection # NoResult =>
    \A vs \in NoteVotes :
      VotingResultsSection(vs) = nSection
        => VotePairs(vs) = VotePairs(nVotes)

\* C25: the context of a round carries the conclusion prompt iff the round is
\* the last one, and a response is tagged isConclusion iff it belongs to the
\* last round and has no error: in the round's map, in the log of turns and in
\* the result.
TaggedAsItShould(r, k) == r.isConclusion <=> (k = turns /\ r.error = "")

TurnsTaggedAsTheyShould(ts) ==
  \A k \in DOMAIN ts : \A j \in DOMAIN ts[k].responses :
    TaggedAsItShould(ts[k].responses[j], ts[k].turnNumber)

C25_ConclusionPromptAndTag ==
  /\ pc = "round" =>
       /\ baseContext # NoResult
       /\ baseContext.conclusionPrompt <=> (turn = turns)
       /\ \A j \in DOMAIN responseMap : TaggedAsItShould(responseMap[j].value, turn)
  /\ TurnsTaggedAsTheyShould(allTurns)
  /\ result # NoResult => TurnsTaggedAsTheyShould(result.turns)

C25_Witness ==
  /\ pc = "round"
  /\ turns = 2
  /\ turn = turns
  /\ baseContext.conclusionPrompt
  /\ \E j \in DOMAIN allTurns[1].responses :
       allTurns[1].responses[j].error = "" /\ ~allTurns[1].responses[j].isConclusion
  /\ \E j \in DOMAIN responseMap :
       responseMap[j].value.error # "" /\ ~responseMap[j].value.isConclusion
  /\ \E i \in DOMAIN tasks : tasks[i].st = "stream"

\* C26: the log of turns is numbered by position and only grows by one turn at
\* its end (until runDebate throws and its locals are gone); the turn added by
\* round k is number k and makes the log k long; the result has turns 1..N;
\* and the context of round k holds the turns 1..k-1 in their order, each with
\* the display name and the content of its responses in roster order.
Numbered(ts) == \A k \in DOMAIN ts : ts[k].turnNumber = k

ContextHolds(previous, ts) ==
  /\ Len(previous) = Len(ts)
  /\ \A k \in DOMAIN ts :
       /\ previous[k].turnNumber = k
       /\ Len(previous[k].responses) = Len(ts[k].responses)
       /\ \A j \in DOMAIN ts[k].responses :
            /\ previous[k].responses[j].displayName = ts[k].responses[j].displayName
            /\ previous[k].responses[j].content = ts[k].responses[j].content
       /\ InRosterOrder(ResponseIds(ts[k]), participants)

C26_TurnLog ==
  /\ [](/\ Numbered(allTurns)
        /\ pc = "round" =>
             /\ Len(allTurns) = turn - 1
             /\ ContextHolds(baseContext.previous, allTurns)
        /\ result # NoResult => Len(result.turns) = turns /\ Numbered(result.turns))
  /\ [][pc' \notin {"aborted", "failed"} =>
          /\ IsPrefix(allTurns, allTurns')
          /\ Len(allTurns') <= Len(allTurns) + 1
          /\ Len(allTurns') = Len(allTurns) + 1 =>
               /\ pc = "round"
               /\ Len(allTurns') = turn
               /\ allTurns'[turn].turnNumber = turn]_vars

C26_Witness ==
  /\ pc = "round"
  /\ turn = MaxSoloTurns
  /\ Len(baseContext.previous) = MaxSoloTurns - 1
  /\ baseContext.previous[1].responses # baseContext.previous[2].responses

\* C27: in a step of a round (that runDebate survives) at most one slot of the
\* round's result collection changes; it was empty before, it is the slot
\* keyed by the id of the participant whose task acts in the step, that task
\* was in flight, and the value written carries that id.
SlotsWritten ==
  {i \in DOMAIN participants : SlotNext(participants[i].id) # SlotNow(participants[i].id)}

TaskActs(i) ==
  \/ StreamDone(i)
  \/ StreamErrorItem(i)
  \/ StreamThrow(i)
  \/ SubmitUserDebate /\ userInputResolver = i

C27_OwnSlotOnly ==
  [][(pc = "round" /\ pc' \notin {"aborted", "failed"}) =>
       /\ Cardinality(SlotsWritten) <= 1
       /\ \A i \in SlotsWritten :
            /\ SlotNow(participants[i].id) = <<>>
            /\ InFlight(tasks[i])
            /\ TaskActs(i)
            /\ Len(SlotNext(participants[i].id)) = 1
            /\ SlotNext(participants[i].id)[1].participantId = participants[i].id]_vars

\* the second participant has written its slot while the first is still streaming
C27_Witness ==
  /\ pc = "round"
  /\ Len(participants) = 2
  /\ MapHas(responseMap, participants[2].id)
  /\ ~MapHas(responseMap, participants[1].id)
  /\ tasks[1].st = "stream"
  /\ tasks[1].buf # <<>>

\* C28: in a round, the streaming observations of an agent carry the running
\* buffer: there is one per fragment received, each is the one before it (the
\* empty text for the first) extended by the fragment then received; and when
\* the stream ends the Response announced by response-complete, which is the
\* one stored (unless runDebate throws in the same step), has the content of
\* the last observation, or "" after none.
LastObservation(o) == IF o = <<>> THEN <<>> ELSE o[Len(o)]

C28_RunningBuffer ==
  /\ [](fanout = "round" =>
          \A i \in DOMAIN tasks :
            /\ Len(tasks[i].obs) = Len(tasks[i].buf)
            /\ \A k \in DOMAIN tasks[i].obs :
                 tasks[i].obs[k] =
                   (IF k = 1 THEN <<>> ELSE tasks[i].obs[k - 1]) \o <<tasks[i].buf[k]>>)
  /\ [][\A i \in TaskIds :
          (fanout = "round" /\ StreamDone(i)) =>
             /\ \E e \in BagToSet(announced') :
                  /\ e.type = "responseComplete"
                  /\ e.turn = turn
                  /\ e.item.participantId = participants[i].id
                  /\ e.item.content = LastObservation(tasks[i].obs)
                  /\ pc' \notin {"aborted", "failed"} =>
                       SlotNext(participants[i].id) = <<e.item>>]_vars

\* a response completed after a stream of several fragments of two kinds
C28_Witness ==
  \E e \in BagToSet(announced) :
    /\ e.type = "responseComplete"
    /\ Len(e.item.content) = MaxSoloChunks
    /\ e.item.content[1] # e.item.content[2]

\* C29: in one run at most one phase-change event is 'complete' or 'error', and
\* it is the last phase-change event - also when onDebateComplete throws.
TerminalPhaseEvents ==
  {k \in DOMAIN Phases(events) : Phases(events)[k] \in {"complete", "error"}}

C29_TerminalPhases ==
  /\ Cardinality(TerminalPhaseEvents) <= 1
  /\ \A k \in TerminalPhaseEvents : k = Len(Phases(events))

\* C30: when in the conclusion fan-out of a run that is not cancelled an agent's
\* stream yields an error item, the participant's output is an error outcome as
\* that of the catch block, not a Conclusion with the fragments received before
\* the error as its content; and no Conclusion among the candidates of the
\* voting comes from a failed output.
ConclusionSlotNext(id) ==
  IF pc' = "concl"
  THEN (IF MapHas(conclusionMap', id) THEN <<MapGet(conclusionMap', id)>> ELSE <<>>)
  ELSE SelectSeq(conclusions', LAMBDA c : c.participantId = id)

FromFailedOutput(c) == c.content = <<ErrorText>>

C30_ConclusionErrorOutcome ==
  /\ [][\A i \in DOMAIN participants :
          (fanout = "concl" /\ ~aborted /\ tasks[i].buf # <<>> /\ StreamErrorItem(i)) =>
             \A k \in DOMAIN ConclusionSlotNext(participants[i].id) :
               FromFailedOutput(ConclusionSlotNext(participants[i].id)[k])]_vars
  /\ [](pc \in {"vote", "done"} =>
          \A j \in DOMAIN conclusions : ~FromFailedOutput(conclusions[j]))

\* C31: the strategies are tried in their order and the first that matches
\* decides: if a candidate matches a pattern of strategy 1 the vote is for a
\* candidate that matches one, whatever names or keywords the response holds
\* elsewhere; else, if a name of a candidate occurs, the vote is for a candidate
\* whose name occurs; else, if a keyword has a candidate, the vote is for a
\* candidate of a keyword; else it is the default.
MarkedCandidates == {j \in DOMAIN pConclusions :
                       VotePatternsMatch(pConclusions[j].displayName, pResponse)}

NamedCandidates == {j \in DOMAIN pConclusions :
                      NameOccurs(pConclusions[j].displayName, pResponse)}

KeywordHits ==
  UNION {KeywordCandidates(KeywordTypes(pResponse)[n], pConclusions) :
           n \in DOMAIN KeywordTypes(pResponse)}

VoteIsForOneOf(S) ==
  \E j \in S : /\ pVote.votedForId = pConclusions[j].participantId
               /\ pVote.votedForDisplayName = pConclusions[j].displayName

C31_StrategiesInOrder ==
  pVote # NoResult =>
    IF MarkedCandidates # {} THEN VoteIsForOneOf(MarkedCandidates)
    ELSE IF NamedCandidates # {} THEN VoteIsForOneOf(NamedCandidates)
    ELSE IF KeywordHits # {} THEN VoteIsForOneOf(KeywordHits)
    ELSE pVote = DefaultVote(pVoter)

\* a marker names one candidate while a longer name of another occurs elsewhere
C31_Witness ==
  /\ pVote # NoResult
  /\ MarkedCandidates # {}
  /\ VoteIsForOneOf(MarkedCandidates)
  /\ \E j \in NamedCandidates \ MarkedCandidates :
       TextLength(pConclusions[j].displayName) > TextLength(pVote.votedForDisplayName)

\* C32: after every add, remove or role edit of a debate participant, the voters
\* are one per debate participant, in the participants' order, of the
\* participant's type, and no two voters have the same id.
ParticipantEdit ==
  \/ \E newType \in PanelTypes, newRole \in PanelRoles : addParticipant(newType, newRole)
  \/ \E i \in 1..MaxPanelParticipants : removeParticipant(i)
  \/ \E i \in 1..MaxPanelParticipants, role \in PanelRoles : updateRole(i, role)

VotersMirror(ps, vs) ==
  /\ Len(vs) = Len(ps)
  /\ \A i \in DOMAIN ps : vs[i].type = ps[i].type
  /\ \A i, j \in DOMAIN vs : i # j => vs[i].id # vs[j].id

C32_VotersFollowParticipants ==
  [][ParticipantEdit => VotersMirror(debateParticipants', voteParticipants')]_vars

\* two participants of one type that carry the same number (one was added after
\* another was removed), each with its voter
C32_Witness ==
  /\ Len(debateParticipants) = 2
  /\ debateParticipants[1].type = debateParticipants[2].type
  /\ debateParticipants[1].id.n = debateParticipants[2].id.n
  /\ VotersMirror(debateParticipants, voteParticipants)
  /\ \A i \in DOMAIN voteParticipants :
       voteParticipants[i].id = [type |-> debateParticipants[i].type,
                                 voterOf |-> <<debateParticipants[i].id>>]

\* C33: the turn count passed to startDebate, and by it to runDebate, is an
\* integer from 1 to 10, whatever was typed into the turns input.
C33_TurnsInRange ==
  \A k \in DOMAIN startedTurns : startedTurns[k] \in 1..10

\* C34: every id in winnerIds of a DebateResult is the participantId of one of
\* the result's conclusions - also with voters whose ids are not ids of
\* participants and whose vote fell back to a vote for themselves.
C34_WinnersAreCandidates ==
  result # NoResult =>
    \A k \in DOMAIN result.winnerIds :
      \E j \in DOMAIN result.conclusions :
        result.conclusions[j].participantId = result.winnerIds[k]

\* C35: when the view's phase is complete, the conclusions and the votes the
\* view has collected from the engine's events are the conclusions and the
\* votes of the engine's result, element for element and in the same order.
C35_ViewListsEqualResult ==
  (viewPhase = "complete" /\ result # NoResult) =>
     /\ viewConclusions = result.conclusions
     /\ viewVotes = result.votes

\* C36: once stopDebate has set the view's phase to idle, no event of the
\* stopped run changes the view's phase: it stays idle (until the view is
\* closed or a debate is started again), whatever the streams in flight do.
C36_IdleAfterStop ==
  [][(aborted /\ viewPhase = "idle" /\ pc # "idle" /\ ~StartDebate)
       => viewPhase' \in {"idle", "closed"}]_vars

\* C37: every human input request of a run that has not been cancelled stays
\* resolvable by the open view: while a task waits for a human input, the view
\* holds a resolver, so that a submission can resolve the request.
C37_EveryRequestResolvable ==
  (~aborted /\ ViewOpen(Cur)) =>
     \A i \in DOMAIN tasks : tasks[i].st = "input" => userInputResolver # 0

\* C39: in a recorded vote, votedForDisplayName is the display name of the
\* entity votedForId identifies: of the conclusion of that participant, or of
\* the voter when the vote is for the voter itself; also for a human vote
\* whose response has no votedForId.
C39_VoteNamesItsTarget ==
  pVote # NoResult =>
     /\ \A j \in DOMAIN pConclusions :
          pConclusions[j].participantId = pVote.votedForId
             => pVote.votedForDisplayName = pConclusions[j].displayName
     /\ pVote.votedForId = pVoter.id => pVote.votedForDisplayName = pVoter.displayName

\* C38: once startDebate has begun a new run, the events of the run that was
\* stopped before it do not modify the view's state: while the new engine
\* emits nothing, the view's phase, conclusions and votes change only by the
\* view's own stopDebate and onClose.
C38_OldRunLeavesNewStateAlone ==
  [][(debateEngine = 2 /\ ~StopDebate /\ ~OnClose)
       => UNCHANGED <<viewPhase, viewConclusions, viewVotes>>]_vars

====
